---- MODULE Spec2Model ----
(***************************************************************************)
(* Delegated authorization and resource reservation core of the sports     *)
(* diary backend: OTP credential store, bearer tokens, team invitations,   *)
(* venue bookings and tournament registration.                             *)
(*                                                                         *)
(* Each subsystem has its own specification (SpecOtp, SpecToken, ...)      *)
(* over a shared set of variables; a specification leaves the variables of *)
(* the other subsystems at their initial value.                            *)
(***************************************************************************)
EXTENDS Integers, Sequences, FiniteSets, TLC

(***************************************************************************)
(* Program constants (app/core/config.py)                                  *)
(***************************************************************************)
OTP_EXPIRE_MINUTES == 5
OTP_MAX_ATTEMPTS == 5
ACCESS_TOKEN_EXPIRE_MINUTES == 10080
SECRET_KEY == "secret-key"
OTP_SECRET_KEY == "otp-secret-key"

(***************************************************************************)
(* Bounds                                                                  *)
(***************************************************************************)
MaxTime == 7          \* the clock of SpecOtp runs over 0..MaxTime (minutes)
NumCodes == 2         \* number of distinct well-formed 6-digit codes drawn
MaxTokens == 2        \* tokens minted in SpecToken
MaxAdvances == 4      \* clock advances in SpecToken
NumBookers == 2       \* concurrent create_booking requests
NumBookingNumbers == 2  \* values the random booking number is drawn from
NumRegistrants == 3   \* concurrent register_team requests
MaxTeams == 2         \* max_teams of the tournament
NumTeamRequests == 2  \* concurrent organizer-team requests
MaxInvitations == 1   \* invitations created in SpecTeam
MaxTeamAdvances == 2  \* clock advances in SpecTeam
MaxGrants == 2        \* manager entries stored in SpecDirect and SpecGate
MaxTournaments == 1   \* tournaments stored in SpecGate
NumProfRequests == 2  \* concurrent professional create_booking requests
MaxProfBookings == 2  \* professional bookings stored
NumLogins == 2        \* concurrent requests that insert a user

(***************************************************************************)
(* Inputs                                                                  *)
(***************************************************************************)
Phones == {"+919999999999"}
BadPhone == "12345"                   \* fails the +91 / length 13 check
Codes == 1..NumCodes                  \* well-formed 6-digit codes 000001, ...
BadOtp == 0                           \* a code that is not 6 digits

VARIABLES
    now,            \* datetime.utcnow(), in minutes
    otp_storage,    \* security.otp_storage: phone -> challenge
    otp_attempts,   \* security.otp_attempts: phone -> failed attempts
    users,          \* db.users
    last,           \* the response of the request handled last
    issued,         \* history: phone -> code of the most recent send-otp
    earlier,        \* history: phone -> codes issued by the sends before it
    used,           \* history: phone -> the issued code has verified
    wrong,          \* history: phone -> wrong codes supplied in a row
    issuedAt,       \* history: phone -> time of the most recent send-otp
    minted,         \* history: the tokens minted, with subject and time
    auth,           \* the answer of the get_current_user made last
    bookings,       \* the bookings table
    venue_total,    \* venues.total_bookings, per venue id
    bk,             \* create_booking requests: position and locals
    tournaments,    \* db.tournaments: id -> max_teams, current_teams
    registrations,  \* db.tournament_registrations
    rg,             \* register_team requests: position and locals
    invitations,    \* db.team_invitations
    managers,       \* db.organizer_managers
    tm,             \* organizer-team requests: position and locals
    answer,         \* the response of the organizer-team request ended last
    reply,          \* the response of the manager or tournament request
                    \* handled last
    permission,     \* the response of the check-permission request
                    \* handled last
    prof_bookings,  \* db.professional_bookings
    pf,             \* professional create_booking requests: position, locals
    lg              \* requests that look a user up by phone and insert
                    \* one: position and locals

otpVars == <<otp_storage, otp_attempts, issued, earlier, used, wrong,
             issuedAt>>

tokenVars == <<minted, auth>>

bookingVars == <<bookings, venue_total, bk>>

regVars == <<tournaments, registrations, rg>>

teamVars == <<invitations, managers, tm, answer>>

gateVars == <<reply, permission>>

profVars == <<prof_bookings, pf>>

loginVars == <<lg>>

vars == <<now, users, last, otpVars, tokenVars, bookingVars, regVars,
          teamVars, gateVars,
          profVars, loginVars>>

\* the variables the organizer-team endpoints leave alone
notTeam == <<last, otpVars, tokenVars, bookingVars, regVars, gateVars,
          profVars, loginVars>>

\* the variables the OTP endpoints leave alone
notOtp == <<tokenVars, bookingVars, regVars, teamVars, gateVars,
          profVars, loginVars>>

\* the variables the token operations leave alone
notToken == <<last, otpVars, bookingVars, regVars, teamVars, gateVars,
          profVars, loginVars>>

\* the variables create_booking leaves alone
notBooking == <<now, users, last, otpVars, tokenVars, regVars, teamVars,
                gateVars,
          profVars, loginVars>>

\* the variables register_team leaves alone
notReg == <<now, users, last, otpVars, tokenVars, bookingVars, teamVars,
            gateVars,
          profVars, loginVars>>

(***************************************************************************)
(* Python dict helpers: d[k] = v and del d[k]                              *)
(***************************************************************************)
Put(d, k, v) == [x \in (DOMAIN d) \cup {k} |-> IF x = k THEN v ELSE d[x]]

Del(d, k) == [x \in (DOMAIN d) \ {k} |-> d[x]]

EmptyDict == [x \in {} |-> 0]

(***************************************************************************)
(* security.py: OTP credential store                                       *)
(***************************************************************************)
\* sha256 over otp ++ phone ++ key, taken as collision free
hash_otp(otp, phone) == <<otp, phone, OTP_SECRET_KEY>>

\* store_otp that leaves an existing failed-attempt counter as it is
store_otp_keep(phone, otp) ==
    [storage  |-> Put(otp_storage, phone,
                      [otp_hash   |-> hash_otp(otp, phone),
                       expires_at |-> now + OTP_EXPIRE_MINUTES,
                       attempts   |-> 0,
                       created_at |-> now]),
     attempts |-> IF phone \in DOMAIN otp_attempts THEN otp_attempts
                  ELSE Put(otp_attempts, phone, [failed_attempts |-> 0])]

\* store_otp: the state of the two dicts after the call
store_otp(phone, otp) ==
    [storage  |-> Put(otp_storage, phone,
                      [otp_hash   |-> hash_otp(otp, phone),
                       expires_at |-> now + OTP_EXPIRE_MINUTES,
                       attempts   |-> 0,
                       created_at |-> now]),
     attempts |-> Put(otp_attempts, phone, [failed_attempts |-> 0])]

\* the rate-limit test with > in place of >=
RateLimited_gt(phone) ==
    /\ phone \in DOMAIN otp_attempts
    /\ otp_attempts[phone].failed_attempts > OTP_MAX_ATTEMPTS

\* the rate-limit test of verify_otp
RateLimited(phone) ==
    /\ phone \in DOMAIN otp_attempts
    /\ otp_attempts[phone].failed_attempts >= OTP_MAX_ATTEMPTS

\* an expiry test that never finds a challenge expired
Expired_never(stored) == FALSE

\* the expiry test of verify_otp
Expired(stored) == now > stored.expires_at

\* verify_otp without the clean-up after a successful verification
verify_otp_keep(phone, otp) ==
    IF RateLimited(phone) THEN
        [ret |-> "429", storage |-> otp_storage, attempts |-> otp_attempts]
    ELSE IF phone \notin DOMAIN otp_storage THEN
        [ret |-> "False", storage |-> otp_storage, attempts |-> otp_attempts]
    ELSE IF Expired(otp_storage[phone]) THEN
        [ret |-> "False", storage |-> Del(otp_storage, phone),
         attempts |-> Del(otp_attempts, phone)]
    ELSE IF hash_otp(otp, phone) # otp_storage[phone].otp_hash THEN
        [ret |-> "False", storage |-> otp_storage,
         attempts |-> Put(otp_attempts, phone,
             [failed_attempts |->
                 (IF phone \in DOMAIN otp_attempts
                  THEN otp_attempts[phone].failed_attempts ELSE 0) + 1])]
    ELSE
        [ret |-> "True", storage |-> otp_storage, attempts |-> otp_attempts]

\* verify_otp: ret is "True", "False" or "429" (the HTTPException raised),
\* storage and attempts are the two dicts after the call
verify_otp(phone, otp) ==
    IF RateLimited(phone) THEN
        [ret |-> "429", storage |-> otp_storage, attempts |-> otp_attempts]
    ELSE IF phone \notin DOMAIN otp_storage THEN
        [ret |-> "False", storage |-> otp_storage, attempts |-> otp_attempts]
    ELSE IF Expired(otp_storage[phone]) THEN
        [ret |-> "False", storage |-> Del(otp_storage, phone),
         attempts |-> Del(otp_attempts, phone)]
    ELSE IF hash_otp(otp, phone) # otp_storage[phone].otp_hash THEN
        [ret |-> "False", storage |-> otp_storage,
         attempts |-> Put(otp_attempts, phone,
             [failed_attempts |->
                 (IF phone \in DOMAIN otp_attempts
                  THEN otp_attempts[phone].failed_attempts ELSE 0) + 1])]
    ELSE
        [ret |-> "True", storage |-> Del(otp_storage, phone),
         attempts |-> Del(otp_attempts, phone)]

(***************************************************************************)
(* security.py: bearer tokens                                              *)
(***************************************************************************)
NoToken == [sub |-> "", exp |-> 0, sig |-> ""]

\* jwt.encode of {sub, exp} under SECRET_KEY
create_access_token(sub, expires_delta) ==
    [sub |-> sub, exp |-> now + expires_delta, sig |-> SECRET_KEY]

(***************************************************************************)
(* auth.py: /auth/send-otp and /auth/verify-otp                            *)
(***************************************************************************)
ValidPhone(phone) == phone \in Phones     \* startswith("+91"), len 13

ValidOtpFormat(otp) == otp \in Codes      \* isdigit(), len 6

\* locked: the phone was rate limited when the request arrived
Resp(op, phone, otp, ret, token, locked) ==
    [op |-> op, phone |-> phone, otp |-> otp, ret |-> ret, token |-> token,
     locked |-> locked]

\* generate_otp draws the code at random: any code may come out
send_otp(phone, otp) ==
    IF ~ValidPhone(phone) THEN
        /\ last' = Resp("send", phone, BadOtp, "400 phone", NoToken, FALSE)
        /\ UNCHANGED <<now, otpVars, users>>
    ELSE
        /\ otp_storage' = store_otp(phone, otp).storage
        /\ otp_attempts' = store_otp(phone, otp).attempts
        /\ earlier' = [earlier EXCEPT ![phone] =
                          IF phone \in DOMAIN issued
                          THEN @ \cup {issued[phone]} ELSE @]
        /\ issued' = Put(issued, phone, otp)
        /\ used' = [used EXCEPT ![phone] = FALSE]
        /\ wrong' = [wrong EXCEPT ![phone] = 0]
        /\ issuedAt' = [issuedAt EXCEPT ![phone] = now]
        /\ last' = Resp("send", phone, otp, "200", NoToken,
                        RateLimited(phone))
        /\ UNCHANGED <<now, users>>

\* the user record of the phone after a successful verification
Resolve(phone) ==
    IF \E u \in users : u.phone = phone
    THEN {IF u.phone = phone THEN [u EXCEPT !.is_verified = TRUE] ELSE u
             : u \in users}
    ELSE users \cup {[phone |-> phone, is_verified |-> TRUE,
                      onboarding_completed |-> FALSE]}

\* the status the endpoint answers for an outcome of verify_otp
StatusOf(ret) ==
    CASE ret = "True"  -> "200"
      [] ret = "False" -> "400"
      [] OTHER         -> "429"

verify_otp_endpoint(phone, otp) ==
    IF ~ValidOtpFormat(otp) THEN
        /\ last' = Resp("verify", phone, otp, "400 format", NoToken,
                        RateLimited(phone))
        /\ UNCHANGED <<now, otpVars, users>>
    ELSE
        LET r == verify_otp(phone, otp) IN
        /\ otp_storage' = r.storage
        /\ otp_attempts' = r.attempts
        /\ users' = IF r.ret = "True" THEN Resolve(phone) ELSE users
        /\ last' = Resp("verify", phone, otp, StatusOf(r.ret),
                        IF r.ret = "True"
                        THEN create_access_token(phone,
                                                 ACCESS_TOKEN_EXPIRE_MINUTES)
                        ELSE NoToken,
                        RateLimited(phone))
        /\ used' = [used EXCEPT ![phone] = @ \/ r.ret = "True"]
        /\ wrong' = [wrong EXCEPT ![phone] =
                        IF phone \notin DOMAIN issued
                           \/ @ >= OTP_MAX_ATTEMPTS THEN @
                        ELSE IF otp # issued[phone] THEN @ + 1
                        ELSE 0]
        /\ UNCHANGED <<now, issued, earlier, issuedAt>>

SendOtp ==
    /\ \E phone \in Phones \cup {BadPhone} : \E otp \in Codes :
           send_otp(phone, otp)
    /\ UNCHANGED notOtp

VerifyOtp ==
    /\ \E phone \in Phones : \E otp \in Codes \cup {BadOtp} :
           verify_otp_endpoint(phone, otp)
    /\ UNCHANGED notOtp

Tick ==
    /\ now < MaxTime
    /\ now' = now + 1
    /\ last' = Resp("tick", "", BadOtp, "", NoToken, FALSE)
    /\ UNCHANGED <<otpVars, users, notOtp>>

\* the OTP store of a freshly started process
OtpStart ==
    /\ otp_storage = EmptyDict
    /\ otp_attempts = EmptyDict
    /\ last = Resp("init", "", BadOtp, "", NoToken, FALSE)
    /\ issued = EmptyDict
    /\ earlier = [p \in Phones |-> {}]
    /\ used = [p \in Phones |-> FALSE]
    /\ wrong = [p \in Phones |-> 0]
    /\ issuedAt = [p \in Phones |-> 0]

\* no token minted yet
TokenStart ==
    /\ minted = {}
    /\ auth = [op |-> "init", token |-> NoToken, ret |-> ""]

\* no booking and no request in flight
BookingStart ==
    /\ bookings = {}
    /\ venue_total = [v \in {1} |-> 0]
    /\ bk = [p \in 1..NumBookers |->
                [pc |-> "idle", venue_id |-> 0, booking_date |-> "",
                 start_time |-> 0, end_time |-> 0, seen_total |-> 0,
                 ret |-> ""]]

\* no registration stored, no register_team request in flight
RegIdle ==
    /\ registrations = {}
    /\ rg = [p \in 1..NumRegistrants |->
                [pc |-> "idle", tournament_id |-> "", team_id |-> "",
                 user |-> "", reg_count |-> 0, inserted_id |-> 0,
                 ret |-> ""]]

\* a tournament open for registration, no request in flight
RegStart ==
    /\ tournaments = [t \in {"T1"} |->
                         [max_teams |-> MaxTeams, current_teams |-> 0]]
    /\ RegIdle

\* an invitation document that stands for None
NoInvitation ==
    [id |-> 0, organizer_id |-> "", user_id |-> "", permissions |-> {},
     status |-> "", expires_at |-> 0]

TeamIdle ==
    [pc |-> "idle", op |-> "", caller |-> "", target |-> "",
     invitation_id |-> 0, permissions |-> {}, inv |-> NoInvitation,
     created |-> 0, ret |-> ""]

\* no invitation, no manager grant, no request in flight
TeamStart ==
    /\ invitations = {}
    /\ managers = {}
    /\ tm = [p \in 1..NumTeamRequests |-> TeamIdle]
    /\ answer = [op |-> "", caller |-> "", target |-> "",
                 invitation_id |-> 0, permissions |-> {}, created |-> 0,
                 ret |-> ""]

\* the response before any manager or tournament request; id is the id of
\* the manager entry or tournament the request made or changed
NoReply == [op |-> "", ret |-> "", id |-> 0]

\* the response ret of the request op
Reply(op, ret, id) ==
    [op |-> op, ret |-> ret, id |-> IF ret = "200" THEN id ELSE 0]

\* the response of check_my_permissions before any request
NoPermission ==
    [is_organizer |-> FALSE, is_manager |-> FALSE, organizer_id |-> "",
     permissions |-> {}]

GateStart == reply = NoReply /\ permission = NoPermission

ProfIdle == [pc |-> "idle", caller |-> "", tournament_id |-> "", role |-> ""]

\* no professional booking and no request in flight
ProfStart ==
    /\ prof_bookings = {}
    /\ pf = [p \in 1..NumProfRequests |-> ProfIdle]

LoginIdle == [pc |-> "idle", op |-> "", phone |-> "", user_id |-> 0]

\* no login and no create_manager in flight
LoginStart == lg = [p \in 1..NumLogins |-> LoginIdle]

InitOtp ==
    /\ now = 0
    /\ users = {}
    /\ OtpStart
    /\ TokenStart
    /\ BookingStart
    /\ RegStart
    /\ TeamStart
    /\ GateStart
    /\ ProfStart
    /\ LoginStart

NextOtp == SendOtp \/ VerifyOtp \/ Tick

SpecOtp == InitOtp /\ [][NextOtp]_vars

(***************************************************************************)
(* security.py: token verification and identity resolution                 *)
(***************************************************************************)
Subjects == {"+919999999999", "+919999999998"}

NoPayload == [ok |-> FALSE, sub |-> ""]

\* jwt.decode that does not verify the exp claim
decode_token_noexp(token, edge) ==
    IF token.sig = SECRET_KEY
    THEN [ok |-> TRUE, sub |-> token.sub]
    ELSE NoPayload

\* decode_token: jwt.decode checks the signature and the exp claim and any
\* InvalidTokenError becomes None (NoPayload). edge is the verdict of the
\* JWT library at the very instant now = exp, which the source does not fix.
decode_token(token, edge) ==
    IF /\ token.sig = SECRET_KEY
       /\ (now < token.exp \/ (now = token.exp /\ edge))
    THEN [ok |-> TRUE, sub |-> token.sub]
    ELSE NoPayload

\* get_current_user: "401" or the phone of the user record found
get_current_user(token, edge) ==
    LET payload == decode_token(token, edge) IN
    IF ~payload.ok THEN "401"
    ELSE IF ~(\E u \in users : u.phone = payload.sub) THEN "401"
    ELSE payload.sub

\* a token as an attacker without SECRET_KEY can sign it
Forged(token) == [token EXCEPT !.sig = "forged"]

\* number of clock advances that led to time t
Advances(t) ==
    (t \div (ACCESS_TOKEN_EXPIRE_MINUTES - 1))
        + (t % (ACCESS_TOKEN_EXPIRE_MINUTES - 1))

ClockSteps == {1, ACCESS_TOKEN_EXPIRE_MINUTES - 1}

\* verify_otp_endpoint once verify_otp has returned True: the user record
\* is created or marked verified and the token is minted
Login ==
    /\ Cardinality(minted) < MaxTokens
    /\ \E sub \in Subjects :
          /\ users' = Resolve(sub)
          /\ minted' = minted \cup
                 {[token |-> create_access_token(sub,
                                 ACCESS_TOKEN_EXPIRE_MINUTES),
                   sub |-> sub, at |-> now]}
    /\ auth' = [op |-> "login", token |-> NoToken, ret |-> ""]
    /\ UNCHANGED <<now, notToken>>

GetCurrentUser ==
    /\ \E m \in minted : \E token \in {m.token, Forged(m.token)} :
       \E edge \in BOOLEAN :
          auth' = [op |-> "get_current_user", token |-> token,
                   ret |-> get_current_user(token, edge)]
    /\ UNCHANGED <<now, users, minted, notToken>>

\* admin delete_user, called by a super admin
DeleteUser ==
    /\ \E u \in users : users' = users \ {u}
    /\ auth' = [op |-> "delete_user", token |-> NoToken, ret |-> ""]
    /\ UNCHANGED <<now, minted, notToken>>

AdvanceClock ==
    /\ Advances(now) < MaxAdvances
    /\ \E d \in ClockSteps : now' = now + d
    /\ auth' = [op |-> "clock", token |-> NoToken, ret |-> ""]
    /\ UNCHANGED <<users, minted, notToken>>

InitToken ==
    /\ now = 0
    /\ users = {}
    /\ OtpStart
    /\ TokenStart
    /\ BookingStart
    /\ RegStart
    /\ TeamStart
    /\ GateStart
    /\ ProfStart
    /\ LoginStart

NextToken == Login \/ GetCurrentUser \/ DeleteUser \/ AdvanceClock

SpecToken == InitToken /\ [][NextToken]_vars

(***************************************************************************)
(* venues.py: create_booking                                               *)
(*                                                                         *)
(* The handler awaits three storage operations: the venue select, the      *)
(* select of an active booking on the slot, and the flush that writes the  *)
(* new booking and the venue counter. Requests interleave at these points. *)
(* Times are the hour of an "HH:00" string.                                *)
(***************************************************************************)
BookProcs == 1..NumBookers

\* the venues table (total_bookings is kept in venue_total)
VenueTable ==
    [v \in {1} |-> [price_per_hour |-> 500, weekend_price |-> 800,
                    peak_hour_price |-> 700]]

VenueRequestIds == {1, 2}             \* venue 2 does not exist

Dates == {"2025-01-15", "2025-01-18"}

\* datetime.strptime(date, "%Y-%m-%d").weekday(): Wednesday, Saturday
Weekday(date) == IF date = "2025-01-15" THEN 2 ELSE 5

\* the hour before the peak band and its first hour: with two hours
\* booked from 17:00 the two slots overlap
StartHours == {17, 18}

Durations == {1, 2}

BookingNumbers == 1..NumBookingNumbers

ActiveStatus == {"confirmed", "pending"}

BookIdle ==
    [pc |-> "idle", venue_id |-> 0, booking_date |-> "", start_time |-> 0,
     end_time |-> 0, seen_total |-> 0, ret |-> ""]

\* an availability select that matches the active bookings whose interval
\* holds the start time
ExistingBookings_overlap(venue_id, date, start) ==
    {b \in bookings : /\ b.venue_id = venue_id
                      /\ b.booking_date = date
                      /\ b.start_time <= start /\ start < b.end_time
                      /\ b.status \in ActiveStatus}

\* the rows the availability select of create_booking returns
ExistingBookings(venue_id, date, start) ==
    {b \in bookings : /\ b.venue_id = venue_id
                      /\ b.booking_date = date
                      /\ b.start_time = start
                      /\ b.status \in ActiveStatus}

\* the dynamic price of create_booking
BookingPrice(venue, date, duration) ==
    IF Weekday(date) >= 5 /\ venue.weekend_price # 0
    THEN venue.weekend_price * duration
    ELSE venue.price_per_hour * duration

\* slot_price of get_venue_slots for the slot that starts at hour
SlotPrice(venue, date, hour) ==
    IF Weekday(date) >= 5 /\ venue.weekend_price # 0
    THEN venue.weekend_price
    ELSE IF 18 <= hour /\ hour < 22 /\ venue.peak_hour_price # 0
    THEN venue.peak_hour_price
    ELSE venue.price_per_hour

\* select(Venue): 404, or the venue row is loaded into the session
BookSelectVenue(p) ==
    /\ bk[p].pc = "idle"
    /\ \E v \in VenueRequestIds : \E d \in Dates : \E s \in StartHours :
       \E dur \in Durations :
          LET req == [BookIdle EXCEPT !.venue_id = v, !.booking_date = d,
                                      !.start_time = s, !.end_time = s + dur]
          IN
          IF v \notin DOMAIN VenueTable
          THEN bk' = [bk EXCEPT ![p] =
                         [req EXCEPT !.pc = "done", !.ret = "404"]]
          ELSE bk' = [bk EXCEPT ![p] =
                         [req EXCEPT !.pc = "check",
                                     !.seen_total = venue_total[v]]]
    /\ UNCHANGED <<bookings, venue_total, notBooking>>

\* select(Booking) on the slot: scalar_one_or_none raises when more than
\* one row matches; one row is the slot-taken error
BookSelectExisting(p) ==
    /\ bk[p].pc = "check"
    /\ LET found == ExistingBookings(bk[p].venue_id, bk[p].booking_date,
                                     bk[p].start_time)
       IN
       bk' = [bk EXCEPT ![p] =
                 IF Cardinality(found) > 1
                 THEN [@ EXCEPT !.pc = "done", !.ret = "500"]
                 ELSE IF found # {}
                 THEN [@ EXCEPT !.pc = "done", !.ret = "400 slot"]
                 ELSE [@ EXCEPT !.pc = "flush"]]
    /\ UNCHANGED <<bookings, venue_total, notBooking>>

\* db.add, venue.total_bookings += 1, flush: the insert fails on a
\* duplicate booking_number (unique index), else both writes take effect
BookFlush(p) ==
    /\ bk[p].pc = "flush"
    /\ \E n \in BookingNumbers :
          IF \E b \in bookings : b.booking_number = n
          THEN /\ bk' = [bk EXCEPT ![p] =
                            [@ EXCEPT !.pc = "done", !.ret = "500"]]
               /\ UNCHANGED <<bookings, venue_total>>
          ELSE LET r == bk[p]
                   duration == r.end_time - r.start_time
                   price == BookingPrice(VenueTable[r.venue_id],
                                         r.booking_date, duration)
               IN
               /\ bookings' = bookings \cup
                      {[id |-> Cardinality(bookings) + 1,
                        booking_number |-> n,
                        user_id |-> p,
                        venue_id |-> r.venue_id,
                        booking_date |-> r.booking_date,
                        start_time |-> r.start_time,
                        end_time |-> r.end_time,
                        duration_hours |-> duration,
                        base_price |-> price,
                        total_amount |-> price,
                        status |-> "confirmed"]}
               /\ venue_total' = [venue_total EXCEPT ![r.venue_id] =
                                     r.seen_total + 1]
               /\ bk' = [bk EXCEPT ![p] =
                            [@ EXCEPT !.pc = "done", !.ret = "200"]]
    /\ UNCHANGED notBooking

SelectVenue == \E p \in BookProcs : BookSelectVenue(p)

SelectExisting == \E p \in BookProcs : BookSelectExisting(p)

Flush == \E p \in BookProcs : BookFlush(p)

InitBooking ==
    /\ now = 0
    /\ users = {}
    /\ OtpStart
    /\ TokenStart
    /\ BookingStart
    /\ RegStart
    /\ TeamStart
    /\ GateStart
    /\ ProfStart
    /\ LoginStart

NextBooking == SelectVenue \/ SelectExisting \/ Flush

SpecBooking == InitBooking /\ [][NextBooking]_vars

(***************************************************************************)
(* tournaments.py: register_team                                           *)
(*                                                                         *)
(* One action per awaited storage operation; a request may be lost between *)
(* any two of them (RegCrash).                                             *)
(***************************************************************************)
RegProcs == 1..NumRegistrants

\* db.teams: team id -> captain
TeamTable ==
    [t \in {"A", "B", "C"} |->
        [captain_id |-> CASE t = "A" -> "capA"
                          [] t = "B" -> "capB"
                          [] OTHER   -> "capC"]]

\* the requests made: three captains for their teams, a caller who is not
\* the captain, a team and a tournament that do not exist
RegRequests ==
    {[tournament_id |-> "T1", team_id |-> "A", user |-> "capA"],
     [tournament_id |-> "T1", team_id |-> "B", user |-> "capB"],
     [tournament_id |-> "T1", team_id |-> "C", user |-> "capC"],
     [tournament_id |-> "T1", team_id |-> "A", user |-> "capB"],
     [tournament_id |-> "T1", team_id |-> "X", user |-> "capA"],
     [tournament_id |-> "T9", team_id |-> "A", user |-> "capA"]}

RegInFlight == {"team", "existing", "count", "insert", "inc", "fetch"}

RegEnd(p, ret) == rg' = [rg EXCEPT ![p] = [@ EXCEPT !.pc = "done",
                                                    !.ret = ret]]

RegGoto(p, pc) == rg' = [rg EXCEPT ![p] = [@ EXCEPT !.pc = pc]]

\* db.tournaments.find_one and the capacity test on the document read
RegFindTournament(p) ==
    /\ rg[p].pc = "idle"
    /\ \E req \in RegRequests :
          LET r == [rg[p] EXCEPT !.tournament_id = req.tournament_id,
                                 !.team_id = req.team_id,
                                 !.user = req.user]
          IN
          IF req.tournament_id \notin DOMAIN tournaments
          THEN rg' = [rg EXCEPT ![p] =
                         [r EXCEPT !.pc = "done", !.ret = "404 tournament"]]
          ELSE IF tournaments[req.tournament_id].current_teams
                      >= tournaments[req.tournament_id].max_teams
          THEN rg' = [rg EXCEPT ![p] =
                         [r EXCEPT !.pc = "done", !.ret = "400 full"]]
          ELSE rg' = [rg EXCEPT ![p] = [r EXCEPT !.pc = "team"]]
    /\ UNCHANGED <<tournaments, registrations, notReg>>

\* db.teams.find_one and the captain test
RegFindTeam(p) ==
    /\ rg[p].pc = "team"
    /\ IF rg[p].team_id \notin DOMAIN TeamTable
       THEN RegEnd(p, "404 team")
       ELSE IF TeamTable[rg[p].team_id].captain_id # rg[p].user
       THEN RegEnd(p, "403")
       ELSE RegGoto(p, "existing")
    /\ UNCHANGED <<tournaments, registrations, notReg>>

\* db.tournament_registrations.find_one for the (tournament, team) pair
RegFindExisting(p) ==
    /\ rg[p].pc = "existing"
    /\ IF \E r \in registrations :
              /\ r.tournament_id = rg[p].tournament_id
              /\ r.team_id = rg[p].team_id
       THEN RegEnd(p, "400 registered")
       ELSE RegGoto(p, "count")
    /\ UNCHANGED <<tournaments, registrations, notReg>>

\* count_documents({}) for the registration number
RegCount(p) ==
    /\ rg[p].pc = "count"
    /\ rg' = [rg EXCEPT ![p] =
                 [@ EXCEPT !.pc = "insert",
                           !.reg_count = Cardinality(registrations)]]
    /\ UNCHANGED <<tournaments, registrations, notReg>>

\* db.tournament_registrations.insert_one
RegInsert(p) ==
    /\ rg[p].pc = "insert"
    /\ LET id == Cardinality(registrations) + 1 IN
       /\ registrations' = registrations \cup
              {[id |-> id,
                tournament_id |-> rg[p].tournament_id,
                team_id |-> rg[p].team_id,
                registered_by |-> rg[p].user,
                registration_number |-> rg[p].reg_count + 1,
                status |-> "pending"]}
       /\ rg' = [rg EXCEPT ![p] = [@ EXCEPT !.pc = "inc",
                                            !.inserted_id = id]]
    /\ UNCHANGED <<tournaments, notReg>>

\* db.tournaments.update_one with $inc current_teams
RegIncrement(p) ==
    /\ rg[p].pc = "inc"
    /\ tournaments' = [tournaments EXCEPT
                          ![rg[p].tournament_id].current_teams = @ + 1]
    /\ RegGoto(p, "fetch")
    /\ UNCHANGED <<registrations, notReg>>

\* find_one of the created registration, which is returned
RegFetch(p) ==
    /\ rg[p].pc = "fetch"
    /\ RegEnd(p, "200")
    /\ UNCHANGED <<tournaments, registrations, notReg>>

\* the request is lost between two steps (worker killed, connection lost)
RegCrash(p) ==
    /\ rg[p].pc \in RegInFlight
    /\ rg' = [rg EXCEPT ![p] = [@ EXCEPT !.pc = "crashed"]]
    /\ UNCHANGED <<tournaments, registrations, notReg>>

FindTournament == \E p \in RegProcs : RegFindTournament(p)

FindTeam == \E p \in RegProcs : RegFindTeam(p)

FindExisting == \E p \in RegProcs : RegFindExisting(p)

CountRegistrations == \E p \in RegProcs : RegCount(p)

InsertRegistration == \E p \in RegProcs : RegInsert(p)

IncrementTeams == \E p \in RegProcs : RegIncrement(p)

FetchRegistration == \E p \in RegProcs : RegFetch(p)

CrashRegistration == \E p \in RegProcs : RegCrash(p)

InitReg ==
    /\ now = 0
    /\ users = {}
    /\ OtpStart
    /\ TokenStart
    /\ BookingStart
    /\ RegStart
    /\ TeamStart
    /\ GateStart
    /\ ProfStart
    /\ LoginStart

NextReg ==
    \/ FindTournament
    \/ FindTeam
    \/ FindExisting
    \/ CountRegistrations
    \/ InsertRegistration
    \/ IncrementTeams
    \/ FetchRegistration
    \/ CrashRegistration

SpecReg == InitReg /\ [][NextReg]_vars

(***************************************************************************)
(* organizer_team.py: invitations                                          *)
(*                                                                         *)
(* One action per awaited storage operation of send_team_invitation,       *)
(* accept_team_invitation and reject_team_invitation. Permission lists are *)
(* taken as sets (the code builds list(set(...)), whose order is not       *)
(* fixed). The via field of a grant is history: the invitation it came     *)
(* from. created_at and updated_at are never read and are left out.        *)
(* answer holds the response of the request that ended last.               *)
(***************************************************************************)
TeamProcs == 1..NumTeamRequests

\* db.users in SpecTeam
TeamUsers ==
    {[id |-> "org1", role |-> "organizer"],
     [id |-> "u1", role |-> "player"]}

TargetIds == {"org1", "u1", "nobody"}   \* "nobody" is no user

PermissionLists == SUBSET {"create_tournament", "edit_tournament"}

InvitationExpireMinutes == 7 * 24 * 60

\* permissions_to_send without the forced edit_tournament
PermissionsToSend_asis(permissions) == permissions

\* permissions_to_send = list(set([*permissions, "edit_tournament"]))
PermissionsToSend(permissions) == permissions \cup {"edit_tournament"}

\* the response of a request: of one that failed, op, caller and the
\* invitation id are kept
Answer(r, ret) ==
    IF ret = "200"
    THEN [op |-> r.op, caller |-> r.caller, target |-> r.target,
          invitation_id |-> r.invitation_id, permissions |-> r.permissions,
          created |-> r.created, ret |-> ret]
    ELSE [op |-> r.op, caller |-> "", target |-> "",
          invitation_id |-> 0, permissions |-> {},
          created |-> 0, ret |-> ret]

\* the request of p ends with ret
TeamEnd(p, ret) ==
    /\ answer' = Answer(tm[p], ret)
    /\ tm' = [tm EXCEPT ![p] = TeamIdle]

\* the request r arrives at p: it fails at once with ret or goes on at pc
TeamBegin(p, r, ret, pc) ==
    IF ret # "ok"
    THEN /\ answer' = Answer(r, ret)
         /\ UNCHANGED tm
    ELSE /\ tm' = [tm EXCEPT ![p] = [r EXCEPT !.pc = pc]]
         /\ UNCHANGED answer

TeamGoto(p, pc) ==
    /\ tm' = [tm EXCEPT ![p] = [@ EXCEPT !.pc = pc]]
    /\ UNCHANGED answer

InvitesInFlight == {p \in TeamProcs : tm[p].op = "invite"}

\* find_one of the invitation by id
InvitationById(id) ==
    IF \E i \in invitations : i.id = id
    THEN CHOOSE i \in invitations : i.id = id
    ELSE NoInvitation

\* send_team_invitation: role test, db.users.find_one, self test
InviteFindUser(p) ==
    /\ tm[p].pc = "idle"
    /\ \E u \in users : \E target \in TargetIds :
       \E permissions \in PermissionLists :
          TeamBegin(p,
              [TeamIdle EXCEPT !.op = "invite", !.caller = u.id,
                               !.target = target,
                               !.permissions = permissions],
              IF u.role # "organizer" THEN "403"
              ELSE IF ~(\E t \in users : t.id = target) THEN "404"
              ELSE IF target = u.id THEN "400 self"
              ELSE "ok",
              "inv_manager")
    /\ UNCHANGED <<now, users, invitations, managers, notTeam>>

\* db.organizer_managers.find_one: the target is already in the team
InviteFindManager(p) ==
    /\ tm[p].pc = "inv_manager"
    /\ IF \E m \in managers : /\ m.organizer_id = tm[p].caller
                              /\ m.manager_user_id = tm[p].target
                              /\ m.is_active
       THEN TeamEnd(p, "400 in team")
       ELSE TeamGoto(p, "inv_pending")
    /\ UNCHANGED <<now, users, invitations, managers, notTeam>>

\* a find_one that passes over the pending invitations that have expired
InviteFindPending_unexpired(p) ==
    /\ tm[p].pc = "inv_pending"
    /\ IF \E i \in invitations : /\ i.organizer_id = tm[p].caller
                                 /\ i.user_id = tm[p].target
                                 /\ i.status = "pending"
                                 /\ i.expires_at >= now
       THEN TeamEnd(p, "400 pending")
       ELSE TeamGoto(p, "inv_insert")
    /\ UNCHANGED <<now, users, invitations, managers, notTeam>>

\* db.team_invitations.find_one: a pending invitation for the pair
InviteFindPending(p) ==
    /\ tm[p].pc = "inv_pending"
    /\ IF \E i \in invitations : /\ i.organizer_id = tm[p].caller
                                 /\ i.user_id = tm[p].target
                                 /\ i.status = "pending"
       THEN TeamEnd(p, "400 pending")
       ELSE TeamGoto(p, "inv_insert")
    /\ UNCHANGED <<now, users, invitations, managers, notTeam>>

\* db.team_invitations.insert_one
InviteInsert(p) ==
    /\ tm[p].pc = "inv_insert"
    /\ LET id == Cardinality(invitations) + 1 IN
       /\ invitations' = invitations \cup
              {[id |-> id,
                organizer_id |-> tm[p].caller,
                user_id |-> tm[p].target,
                permissions |-> PermissionsToSend(tm[p].permissions),
                status |-> "pending",
                expires_at |-> now + InvitationExpireMinutes]}
       /\ tm' = [tm EXCEPT ![p] = [@ EXCEPT !.pc = "inv_fetch",
                                            !.created = id]]
    /\ UNCHANGED <<now, users, managers, answer, notTeam>>

\* find_one of the created invitation, which is returned
InviteFetch(p) ==
    /\ tm[p].pc = "inv_fetch"
    /\ TeamEnd(p, "200")
    /\ UNCHANGED <<now, users, invitations, managers, notTeam>>

\* accept_team_invitation without the test of expires_at
AcceptFind_noexpiry(p) ==
    /\ tm[p].pc = "idle"
    /\ \E u \in users : \E id \in 1..MaxInvitations + 1 :
          LET invitation == InvitationById(id) IN
          TeamBegin(p,
              [TeamIdle EXCEPT !.op = "accept", !.caller = u.id,
                               !.invitation_id = id, !.inv = invitation],
              IF invitation = NoInvitation THEN "404"
              ELSE IF invitation.user_id # u.id THEN "403"
              ELSE IF invitation.status # "pending" THEN "400 status"
              ELSE "ok",
              "acc_insert")
    /\ UNCHANGED <<now, users, invitations, managers, notTeam>>

\* accept_team_invitation: find_one and the three tests on the document
AcceptFind(p) ==
    /\ tm[p].pc = "idle"
    /\ \E u \in users : \E id \in 1..MaxInvitations + 1 :
          LET invitation == InvitationById(id) IN
          TeamBegin(p,
              [TeamIdle EXCEPT !.op = "accept", !.caller = u.id,
                               !.invitation_id = id, !.inv = invitation],
              IF invitation = NoInvitation THEN "404"
              ELSE IF invitation.user_id # u.id THEN "403"
              ELSE IF invitation.status # "pending" THEN "400 status"
              ELSE IF invitation.expires_at < now THEN "400 expired"
              ELSE "ok",
              "acc_insert")
    /\ UNCHANGED <<now, users, invitations, managers, notTeam>>

\* db.organizer_managers.insert_one of the manager entry
AcceptInsert(p) ==
    /\ tm[p].pc = "acc_insert"
    /\ LET id == Cardinality(managers) + 1 IN
       /\ managers' = managers \cup
              {[id |-> id,
                organizer_id |-> tm[p].inv.organizer_id,
                manager_user_id |-> tm[p].caller,
                permissions |-> tm[p].inv.permissions,
                is_active |-> TRUE,
                via |-> tm[p].inv.id]}
       /\ tm' = [tm EXCEPT ![p] = [@ EXCEPT !.pc = "acc_update",
                                            !.created = id]]
    /\ UNCHANGED <<now, users, invitations, answer, notTeam>>

\* update_one by _id: $set status
SetStatus(id, status) ==
    invitations' = {IF i.id = id THEN [i EXCEPT !.status = status] ELSE i
                       : i \in invitations}

\* db.team_invitations.update_one: status accepted
AcceptUpdate(p) ==
    /\ tm[p].pc = "acc_update"
    /\ SetStatus(tm[p].invitation_id, "accepted")
    /\ TeamGoto(p, "acc_fetch")
    /\ UNCHANGED <<now, users, managers, notTeam>>

\* find_one of the created manager entry, which is returned
AcceptFetch(p) ==
    /\ tm[p].pc = "acc_fetch"
    /\ TeamEnd(p, "200")
    /\ UNCHANGED <<now, users, invitations, managers, notTeam>>

\* reject_team_invitation: find_one and the two tests on the document
RejectFind(p) ==
    /\ tm[p].pc = "idle"
    /\ \E u \in users : \E id \in 1..MaxInvitations + 1 :
          LET invitation == InvitationById(id) IN
          TeamBegin(p,
              [TeamIdle EXCEPT !.op = "reject", !.caller = u.id,
                               !.invitation_id = id, !.inv = invitation],
              IF invitation = NoInvitation THEN "404"
              ELSE IF invitation.user_id # u.id THEN "403"
              ELSE IF invitation.status # "pending" THEN "400 status"
              ELSE "ok",
              "rej_update")
    /\ UNCHANGED <<now, users, invitations, managers, notTeam>>

\* db.team_invitations.update_one: status rejected
RejectUpdate(p) ==
    /\ tm[p].pc = "rej_update"
    /\ SetStatus(tm[p].invitation_id, "rejected")
    /\ TeamEnd(p, "200")
    /\ UNCHANGED <<now, users, managers, notTeam>>

\* number of clock advances that led to time t
TeamAdvances(t) ==
    (t \div InvitationExpireMinutes) + (t % InvitationExpireMinutes)

\* the clock passes the instants at which an invitation made at an earlier
\* instant reaches expires_at, and the minute after each of them
TeamTick ==
    /\ TeamAdvances(now) < MaxTeamAdvances
    /\ now' = IF TeamAdvances(now) % 2 = 0
              THEN now + InvitationExpireMinutes
              ELSE now + 1
    /\ UNCHANGED <<users, teamVars, notTeam>>

\* a send request arrives while the invitations stored and the send
\* requests in flight are fewer than MaxInvitations
InviteArrive(p) ==
    /\ Cardinality(invitations) + Cardinality(InvitesInFlight)
           < MaxInvitations
    /\ InviteFindUser(p)

Invite ==
    \E p \in TeamProcs :
        \/ InviteArrive(p)
        \/ InviteFindManager(p)
        \/ InviteFindPending(p)
        \/ InviteInsert(p)
        \/ InviteFetch(p)

Accept ==
    \E p \in TeamProcs :
        \/ AcceptFind(p)
        \/ AcceptInsert(p)
        \/ AcceptUpdate(p)
        \/ AcceptFetch(p)

Reject == \E p \in TeamProcs : RejectFind(p) \/ RejectUpdate(p)

InitTeam ==
    /\ now = 0
    /\ users = TeamUsers
    /\ OtpStart
    /\ TokenStart
    /\ BookingStart
    /\ RegStart
    /\ TeamStart
    /\ GateStart
    /\ ProfStart
    /\ LoginStart

NextTeam == Invite \/ Accept \/ Reject \/ TeamTick

SpecTeam == InitTeam /\ [][NextTeam]_vars

(***************************************************************************)
(* send_team_invitation alone: send requests arrive, also side by side,    *)
(* while fewer than MaxInvitations invitations are stored.                 *)
(***************************************************************************)
InviteArriveAnyTime(p) ==
    /\ Cardinality(invitations) < MaxInvitations
    /\ InviteFindUser(p)

NextInvite ==
    \E p \in TeamProcs :
        \/ InviteArriveAnyTime(p)
        \/ InviteFindManager(p)
        \/ InviteFindPending(p)
        \/ InviteInsert(p)
        \/ InviteFetch(p)

SpecInvite == InitTeam /\ [][NextInvite]_vars

(***************************************************************************)
(* organizer_team.py: managers added, changed and removed by the organizer *)
(*                                                                         *)
(* The requests of SpecDirect are handled one at a time: each action is    *)
(* one whole request, from its first test to its response. A manager entry *)
(* made here has via = 0 (it comes from no invitation) and carries the     *)
(* phone that create_manager looks entries up by. Names, role_description, *)
(* created_at and updated_at are never read by a test and are left out.    *)
(***************************************************************************)
\* db.users in SpecDirect and SpecGate; email "" is no email
GateUsers ==
    {[id |-> "org1", role |-> "organizer", phone |-> "+911",
      email |-> "org1@x"],
     [id |-> "org2", role |-> "organizer", phone |-> "+912", email |-> ""],
     [id |-> "u1", role |-> "player", phone |-> "+913", email |-> ""]}

\* OrganizerManagerAddExisting.user_id: "nobody" is the id of no user
UserIds == {"u1", "nobody"}

\* OrganizerManagerCreate.phone: the phone of u1 and a phone of no user
CreatePhones == {"+913", "+914"}

\* OrganizerManagerCreate.email: none, the email of org1, a new one
CreateEmails == {"", "org1@x", "new@x"}

\* OrganizerManagerCreate.permissions: none, or a list without
\* create_tournament
CreatePermissionLists == {{}, {"edit_tournament"}}

\* default_permissions of create_manager
DefaultPermissions ==
    {"create_tournament", "edit_tournament", "view_registrations"}

\* the variables the manager requests leave alone
notDirect == <<now, last, otpVars, tokenVars, bookingVars, regVars,
               invitations, tm, answer, permission, profVars, loginVars>>

\* find_one by _id in organizer_managers: the ids in use
ManagerIds == {m.id : m \in managers}

ManagerById(id) == CHOOSE m \in managers : m.id = id

\* find_one: an active entry of the organizer for the user
ActiveManager(organizer_id, user_id) ==
    \E m \in managers : /\ m.organizer_id = organizer_id
                        /\ m.manager_user_id = user_id
                        /\ m.is_active

\* find_one: an active entry of the organizer with the phone
ActiveManagerByPhone(organizer_id, phone) ==
    \E m \in managers : /\ m.organizer_id = organizer_id
                        /\ m.phone = phone
                        /\ m.is_active

\* manager_dict as insert_one stores it
ManagerEntry(organizer_id, manager_user_id, phone, permissions) ==
    [id |-> Cardinality(managers) + 1,
     organizer_id |-> organizer_id,
     manager_user_id |-> manager_user_id,
     phone |-> phone,
     permissions |-> permissions,
     is_active |-> TRUE,
     via |-> 0]

\* an inserting request is taken while fewer than MaxGrants entries exist
RoomFor(ret) == ret = "200" => Cardinality(managers) < MaxGrants

\* add_existing_user_as_manager refusing a user who has an active entry of
\* any organizer
AddExistingRet_exclusive(c, user_id) ==
    IF c.role # "organizer" THEN "403"
    ELSE IF ~(\E u \in users : u.id = user_id) THEN "404"
    ELSE IF \E m \in managers : m.manager_user_id = user_id /\ m.is_active
         THEN "400 in team"
    ELSE "200"

\* the response of add_existing_user_as_manager
AddExistingRet(c, user_id) ==
    IF c.role # "organizer" THEN "403"
    ELSE IF ~(\E u \in users : u.id = user_id) THEN "404"
    ELSE IF ActiveManager(c.id, user_id) THEN "400 in team"
    ELSE "200"

\* add_existing_user_as_manager, called by c
AddExistingReq(c, user_id, permissions) ==
    LET ret == AddExistingRet(c, user_id)
        user == CHOOSE u \in users : u.id = user_id
        entry == ManagerEntry(c.id, user_id, user.phone, permissions)
    IN  /\ RoomFor(ret)
        /\ managers' = IF ret = "200" THEN managers \cup {entry}
                       ELSE managers
        /\ reply' = Reply("add_existing", ret, entry.id)
        /\ UNCHANGED <<users, notDirect>>

AddExisting ==
    \E c \in users : \E user_id \in UserIds :
    \E permissions \in PermissionLists :
        AddExistingReq(c, user_id, permissions)

\* create_manager without the test of the email
CreateManagerRet_noemail(c, phone, email) ==
    IF c.role # "organizer" THEN "403"
    ELSE IF ActiveManagerByPhone(c.id, phone) THEN "400 in team"
    ELSE "200"

\* the response of create_manager
CreateManagerRet(c, phone, email) ==
    IF c.role # "organizer" THEN "403"
    ELSE IF ActiveManagerByPhone(c.id, phone) THEN "400 in team"
    ELSE IF \E u \in users : u.phone = phone THEN "200"
    ELSE IF email # "" /\ (\E u \in users : u.email = email)
         THEN "400 email"
    ELSE "200"

\* new_user of create_manager; the id insert_one gives it is modelled by
\* the phone, which is unique among users
NewManagerUser(phone, email) ==
    [id |-> phone, role |-> "organizer", phone |-> phone, email |-> email]

\* create_manager, called by c; an empty permission list stands for None
\* too, both get default_permissions
CreateManagerReq(c, phone, email, permissions) ==
    LET ret == CreateManagerRet(c, phone, email)
        registered == \E u \in users : u.phone = phone
        manager_user_id ==
            IF registered
            THEN (CHOOSE u \in users : u.phone = phone).id
            ELSE NewManagerUser(phone, email).id
        entry == ManagerEntry(c.id, manager_user_id, phone,
                     IF permissions = {} THEN DefaultPermissions
                     ELSE permissions)
    IN  /\ RoomFor(ret)
        /\ users' = IF ret = "200" /\ ~registered
                    THEN users \cup {NewManagerUser(phone, email)}
                    ELSE users
        /\ managers' = IF ret = "200" THEN managers \cup {entry}
                       ELSE managers
        /\ reply' = Reply("create_manager", ret, entry.id)
        /\ UNCHANGED notDirect

CreateManager ==
    \E c \in users : \E phone \in CreatePhones : \E email \in CreateEmails :
    \E permissions \in CreatePermissionLists :
        CreateManagerReq(c, phone, email, permissions)

\* the response of update_manager and of remove_manager
ManagerRet(c, manager_id) ==
    IF manager_id \notin ManagerIds THEN "404"
    ELSE IF ManagerById(manager_id).organizer_id # c.id THEN "403"
    ELSE "200"

\* OrganizerManagerUpdate: the fields that are set; a field that is not set
\* or is None is left as it is
ManagerUpdates ==
    {[set_permissions |-> TRUE, permissions |-> ps,
      set_active |-> FALSE, is_active |-> FALSE] : ps \in PermissionLists}
    \cup
    {[set_permissions |-> FALSE, permissions |-> {},
      set_active |-> TRUE, is_active |-> b] : b \in BOOLEAN}

\* update_one by _id: $set update_data
SetManager(manager_id, data) ==
    {IF m.id # manager_id THEN m
     ELSE [m EXCEPT
              !.permissions = IF data.set_permissions THEN data.permissions
                              ELSE @,
              !.is_active = IF data.set_active THEN data.is_active ELSE @]
        : m \in managers}

\* update_manager, called by c
UpdateManagerReq(c, manager_id, data) ==
    LET ret == ManagerRet(c, manager_id) IN
    /\ managers' = IF ret = "200" THEN SetManager(manager_id, data)
                   ELSE managers
    /\ reply' = Reply("update_manager", ret, manager_id)
    /\ UNCHANGED <<users, notDirect>>

UpdateManager ==
    \E c \in users : \E manager_id \in 1..MaxGrants + 1 :
    \E data \in ManagerUpdates :
        UpdateManagerReq(c, manager_id, data)

\* remove_manager, called by c: the soft delete
RemoveManagerReq(c, manager_id) ==
    LET ret == ManagerRet(c, manager_id) IN
    /\ managers' =
          IF ret = "200"
          THEN SetManager(manager_id,
                   [set_permissions |-> FALSE, permissions |-> {},
                    set_active |-> TRUE, is_active |-> FALSE])
          ELSE managers
    /\ reply' = Reply("remove_manager", ret, manager_id)
    /\ UNCHANGED <<users, notDirect>>

RemoveManager ==
    \E c \in users : \E manager_id \in 1..MaxGrants + 1 :
        RemoveManagerReq(c, manager_id)

InitDirect ==
    /\ now = 0
    /\ users = GateUsers
    /\ OtpStart
    /\ TokenStart
    /\ BookingStart
    /\ RegStart
    /\ TeamStart
    /\ GateStart
    /\ ProfStart
    /\ LoginStart

NextDirect == AddExisting \/ CreateManager \/ UpdateManager \/ RemoveManager

SpecDirect == InitDirect /\ [][NextDirect]_vars

\* create_manager on its own, one request after the other
NextCreate == CreateManager

SpecCreate == InitDirect /\ [][NextCreate]_vars

\* the organizer-team requests handled one after the other while the clock
\* runs: a request arrives when no other is in flight, a send request
\* while at most MaxInvitations invitations are stored
ArriveAlone(p) ==
    /\ \A q \in TeamProcs : tm[q].pc = "idle"
    /\ \/ Cardinality(invitations) <= MaxInvitations /\ InviteFindUser(p)
       \/ AcceptFind(p)
       \/ RejectFind(p)

NextExpiry ==
    \/ \E p \in TeamProcs : ArriveAlone(p)
    \/ \E p \in TeamProcs :
          \/ InviteFindManager(p)
          \/ InviteFindPending(p)
          \/ InviteInsert(p)
          \/ InviteFetch(p)
    \/ \E p \in TeamProcs :
          AcceptInsert(p) \/ AcceptUpdate(p) \/ AcceptFetch(p)
    \/ \E p \in TeamProcs : RejectUpdate(p)
    \/ TeamTick

SpecExpiry == InitTeam /\ [][NextExpiry]_vars

(***************************************************************************)
(* The gate of the tournament endpoints (tournaments.py) beside the        *)
(* manager endpoints. Each request is one step. In SpecGate db.tournaments *)
(* is the sequence of the documents in insertion order, the index being    *)
(* the _id; of a document the fields the gate reads or writes are kept,    *)
(* and name stands for the fields a client may set.                        *)
(***************************************************************************)
\* TournamentCreate.name, TournamentUpdate.name
TournamentNames == {"cup", "open"}

\* the variables the tournament requests leave alone
notTournament == <<now, users, last, otpVars, tokenVars, bookingVars,
                   registrations, rg, teamVars, permission, profVars,
                   loginVars>>

\* a manager entry that stands for None
NoManager ==
    [id |-> 0, organizer_id |-> "", manager_user_id |-> "", phone |-> "",
     permissions |-> {}, is_active |-> FALSE, via |-> 0]

\* find_one without a sort: one of the matching documents, None if no
\* document matches
FindOne(matching) == IF matching = {} THEN {NoManager} ELSE matching

\* the query without the is_active filter
ActiveEntriesOf_all(user_id) ==
    {m \in managers : m.manager_user_id = user_id}

\* {"manager_user_id": user_id, "is_active": True}
ActiveEntriesOf(user_id) ==
    {m \in managers : m.manager_user_id = user_id /\ m.is_active}

\* {"manager_user_id": user_id, "organizer_id": organizer_id,
\*  "is_active": True}
ActiveEntriesFor(organizer_id, user_id) ==
    {m \in ActiveEntriesOf(user_id) : m.organizer_id = organizer_id}

\* check_my_permissions with the role tested before the manager entry
CheckMyPermissions_rolefirst(c, manager) ==
    IF c.role = "organizer"
    THEN [is_organizer |-> TRUE, is_manager |-> FALSE,
          organizer_id |-> c.id,
          permissions |-> {"create_tournament", "edit_tournament",
                           "view_registrations", "manage_team"}]
    ELSE IF manager # NoManager
    THEN [is_organizer |-> FALSE, is_manager |-> TRUE,
          organizer_id |-> manager.organizer_id,
          permissions |-> manager.permissions]
    ELSE [is_organizer |-> FALSE, is_manager |-> FALSE,
          organizer_id |-> "", permissions |-> {}]

\* the response of check_my_permissions to c, manager being the entry its
\* find_one returned
CheckMyPermissions(c, manager) ==
    IF manager # NoManager
    THEN [is_organizer |-> FALSE, is_manager |-> TRUE,
          organizer_id |-> manager.organizer_id,
          permissions |-> manager.permissions]
    ELSE IF c.role = "organizer"
    THEN [is_organizer |-> TRUE, is_manager |-> FALSE,
          organizer_id |-> c.id,
          permissions |-> {"create_tournament", "edit_tournament",
                           "view_registrations", "manage_team"}]
    ELSE [is_organizer |-> FALSE, is_manager |-> FALSE,
          organizer_id |-> "", permissions |-> {}]

\* the response of create_tournament, manager being the entry its find_one
\* returned
CreateTournamentRet(c, manager) ==
    IF c.role = "organizer" THEN "200"
    ELSE IF manager = NoManager THEN "403"
    ELSE IF "create_tournament" \notin manager.permissions
         THEN "403 permission"
    ELSE "200"

\* tournament_dict of create_tournament
NewTournament(c, manager, name) ==
    [organizer_id |-> IF c.role = "organizer" THEN c.id
                      ELSE manager.organizer_id,
     created_by |-> c.id,
     created_by_manager |-> c.role # "organizer",
     is_active |-> TRUE,
     name |-> name,
     max_teams |-> MaxTeams,
     current_teams |-> 0]

\* create_tournament, called by c
CreateTournamentReq(c, manager, name) ==
    LET ret == CreateTournamentRet(c, manager) IN
    /\ manager \in FindOne(ActiveEntriesOf(c.id))
    /\ ret = "200" => Len(tournaments) < MaxTournaments
    /\ tournaments' = IF ret = "200"
                      THEN Append(tournaments, NewTournament(c, manager, name))
                      ELSE tournaments
    /\ reply' = Reply("create_tournament", ret, Len(tournaments) + 1)
    /\ UNCHANGED <<managers, notTournament>>

CreateTournament ==
    \E c \in users : \E manager \in managers \cup {NoManager} :
    \E name \in TournamentNames :
        CreateTournamentReq(c, manager, name)

\* the entries the find_one of update_tournament and delete_tournament may
\* return
EditFinds(c, tournament_id) ==
    IF tournament_id \in DOMAIN tournaments
    THEN FindOne(ActiveEntriesFor(tournaments[tournament_id].organizer_id,
                                  c.id))
    ELSE {NoManager}

\* the response of update_tournament and of delete_tournament, manager
\* being the entry the find_one returned
EditTournamentRet(c, tournament_id, manager) ==
    IF tournament_id \notin DOMAIN tournaments THEN "404"
    ELSE IF tournaments[tournament_id].organizer_id = c.id THEN "200"
    ELSE IF manager = NoManager THEN "403"
    ELSE IF "edit_tournament" \notin manager.permissions
         THEN "403 permission"
    ELSE "200"

\* TournamentUpdate.current_teams: any integer, here nothing, less than
\* nothing and more than max_teams
TeamCounts == {-1, 0, MaxTeams + 1}

\* tournament_data.dict(exclude_unset=True) without the None values: the
\* fields the request sets, among name and current_teams
TournamentUpdates ==
    {[name |-> name] : name \in TournamentNames}
        \cup {[current_teams |-> k] : k \in TeamCounts}
        \cup {[name |-> name, current_teams |-> k] :
                 name \in TournamentNames, k \in TeamCounts}

\* a $set that leaves current_teams out
Updated_nocount(tournament, update_data) ==
    [f \in DOMAIN tournament |->
        IF f \in DOMAIN update_data /\ f # "current_teams"
        THEN update_data[f] ELSE tournament[f]]

\* the document after update_one with {"$set": update_data}
Updated(tournament, update_data) ==
    [f \in DOMAIN tournament \cup DOMAIN update_data |->
        IF f \in DOMAIN update_data THEN update_data[f] ELSE tournament[f]]

\* update_tournament, called by c with the fields of update_data
UpdateTournamentData(c, tournament_id, manager, update_data) ==
    LET ret == EditTournamentRet(c, tournament_id, manager) IN
    /\ manager \in EditFinds(c, tournament_id)
    /\ tournaments' =
          IF ret = "200"
          THEN [tournaments EXCEPT
                   ![tournament_id] = Updated(@, update_data)]
          ELSE tournaments
    /\ reply' = Reply("update_tournament", ret, tournament_id)
    /\ UNCHANGED <<managers, notTournament>>

\* update_tournament, called by c with a name only
UpdateTournamentReq(c, tournament_id, manager, name) ==
    UpdateTournamentData(c, tournament_id, manager, [name |-> name])

UpdateTournament ==
    \E c \in users : \E tournament_id \in 1..MaxTournaments + 1 :
    \E manager \in managers \cup {NoManager} :
    \E name \in TournamentNames :
        UpdateTournamentReq(c, tournament_id, manager, name)

\* delete_tournament, called by c: the soft delete
DeleteTournamentReq(c, tournament_id, manager) ==
    LET ret == EditTournamentRet(c, tournament_id, manager) IN
    /\ manager \in EditFinds(c, tournament_id)
    /\ tournaments' =
          IF ret = "200"
          THEN [tournaments EXCEPT ![tournament_id].is_active = FALSE]
          ELSE tournaments
    /\ reply' = Reply("delete_tournament", ret, tournament_id)
    /\ UNCHANGED <<managers, notTournament>>

DeleteTournament ==
    \E c \in users : \E tournament_id \in 1..MaxTournaments + 1 :
    \E manager \in managers \cup {NoManager} :
        DeleteTournamentReq(c, tournament_id, manager)

\* the manager requests of SpecGate: u1 is added, the phone of no user is
\* made a manager, an entry is switched off and on
GateAddExisting ==
    \E c \in users : \E permissions \in CreatePermissionLists :
        AddExistingReq(c, "u1", permissions)

GateCreateManager ==
    \E c \in users : \E permissions \in CreatePermissionLists :
        CreateManagerReq(c, "+914", "", permissions)

GateUpdateManager ==
    \E c \in users : \E manager_id \in 1..MaxGrants :
    \E is_active \in BOOLEAN :
        UpdateManagerReq(c, manager_id,
            [set_permissions |-> FALSE, permissions |-> {},
             set_active |-> TRUE, is_active |-> is_active])

InitGate ==
    /\ now = 0
    /\ users = GateUsers
    /\ tournaments = <<>>
    /\ OtpStart
    /\ TokenStart
    /\ BookingStart
    /\ RegIdle
    /\ TeamStart
    /\ GateStart
    /\ ProfStart
    /\ LoginStart

NextGate ==
    \/ GateAddExisting
    \/ GateCreateManager
    \/ GateUpdateManager
    \/ CreateTournament
    \/ UpdateTournament
    \/ DeleteTournament

SpecGate == InitGate /\ [][NextGate]_vars

\* check_my_permissions, called by c: a read
CheckPermissionReq(c, manager) ==
    /\ manager \in FindOne(ActiveEntriesOf(c.id))
    /\ permission' = CheckMyPermissions(c, manager)
    /\ reply' = Reply("check_permission", "200", 0)
    /\ UNCHANGED <<now, users, last, otpVars, tokenVars, bookingVars,
                   regVars, teamVars, profVars, loginVars>>

CheckPermission ==
    \E c \in users : \E manager \in managers \cup {NoManager} :
        CheckPermissionReq(c, manager)

\* check-permission beside the requests that make a manager of the phone
\* of no user and switch entries off and on
NextPerm ==
    \/ GateCreateManager
    \/ GateUpdateManager
    \/ CheckPermission

SpecPerm == InitGate /\ [][NextPerm]_vars

(***************************************************************************)
(* professionals.py: create_booking, update_booking, cancel_booking        *)
(*                                                                         *)
(* create_booking awaits the duplicate find_one and then the insert_one;   *)
(* requests interleave between the two. update_booking and cancel_booking  *)
(* write one update_one that does not depend on what they read, after the  *)
(* test of the caller, and are one step each.                              *)
(***************************************************************************)
ProfProcs == 1..NumProfRequests

\* the callers: a booker and the professional whose availability is
\* stored and active, and a third user
ProfCallers == {"b1", "pro1", "x1"}

\* ProfessionalBookingCreate.tournament_id
ProfTournaments == {"T1", "T2"}

\* ProfessionalBookingCreate.role
ProfRoles == {"Umpire", "Coach"}

\* ProfessionalBookingUpdate.status
ProfStatuses == {"confirmed", "accepted", "cancelled"}

\* the variables the professional booking requests leave alone
notProf == <<now, users, last, otpVars, tokenVars, bookingVars, regVars,
             teamVars, gateVars, loginVars>>

\* find_one: a confirmed or accepted Umpire booking of the professional
\* for the tournament
UmpireBooked(tournament_id, professional_id) ==
    \E b \in prof_bookings : /\ b.tournament_id = tournament_id
                              /\ b.professional_id = professional_id
                              /\ b.role = "Umpire"
                              /\ b.status \in {"confirmed", "accepted"}

\* create_booking: the availability is found active; the duplicate test
\* for an Umpire of a tournament
ProfFind(p) ==
    /\ pf[p].pc = "idle"
    /\ Cardinality(prof_bookings)
           + Cardinality({q \in ProfProcs : pf[q].pc = "insert"})
           < MaxProfBookings
    /\ \E tournament_id \in ProfTournaments : \E role \in ProfRoles :
          IF role = "Umpire" /\ UmpireBooked(tournament_id, "pro1")
          THEN UNCHANGED pf
          ELSE pf' = [pf EXCEPT ![p] =
                         [pc |-> "insert", caller |-> "b1",
                          tournament_id |-> tournament_id, role |-> role]]
    /\ UNCHANGED <<prof_bookings, notProf>>

\* insert_one of booking_dict with status confirmed
ProfInsert(p) ==
    /\ pf[p].pc = "insert"
    /\ prof_bookings' = prof_bookings \cup
           {[id |-> Cardinality(prof_bookings) + 1,
             tournament_id |-> pf[p].tournament_id,
             professional_id |-> "pro1",
             role |-> pf[p].role,
             booked_by |-> pf[p].caller,
             status |-> "confirmed"]}
    /\ pf' = [pf EXCEPT ![p] = ProfIdle]
    /\ UNCHANGED notProf

\* update_one by _id: $set status
SetProfStatus(id, status) ==
    {IF b.id = id THEN [b EXCEPT !.status = status] ELSE b
        : b \in prof_bookings}

\* the caller is the professional or the booker of the booking
ProfAuthorized(c, id) ==
    \E b \in prof_bookings :
        b.id = id /\ (b.professional_id = c \/ b.booked_by = c)

\* update_booking with a status, called by c
ProfUpdate ==
    /\ \E c \in ProfCallers : \E id \in 1..MaxProfBookings :
       \E status \in ProfStatuses :
          prof_bookings' = IF ProfAuthorized(c, id)
                           THEN SetProfStatus(id, status)
                           ELSE prof_bookings
    /\ UNCHANGED <<pf, notProf>>

\* cancel_booking, called by c
ProfCancel ==
    /\ \E c \in ProfCallers : \E id \in 1..MaxProfBookings :
          prof_bookings' = IF ProfAuthorized(c, id)
                           THEN SetProfStatus(id, "cancelled")
                           ELSE prof_bookings
    /\ UNCHANGED <<pf, notProf>>

ProfCreate == \E p \in ProfProcs : ProfFind(p) \/ ProfInsert(p)

InitProf ==
    /\ now = 0
    /\ users = {}
    /\ OtpStart
    /\ TokenStart
    /\ BookingStart
    /\ RegStart
    /\ TeamStart
    /\ GateStart
    /\ ProfStart
    /\ LoginStart

NextProf == ProfCreate \/ ProfUpdate \/ ProfCancel

SpecProf == InitProf /\ [][NextProf]_vars

(***************************************************************************)
(* The two handlers that insert into db.users: verify_otp_endpoint         *)
(* (auth.py), from the find_one by phone that follows a successful         *)
(* verify_otp, and create_manager (organizer_team.py), called by the       *)
(* organizer org1. One action per awaited storage operation. db.users has  *)
(* the unique index on phone that create_indexes makes at start-up.        *)
(***************************************************************************)
LoginProcs == 1..NumLogins

\* db.users in SpecLogin: the organizer
LoginUsers ==
    {[id |-> 1, phone |-> "+911", role |-> "organizer",
      is_verified |-> TRUE, onboarding_completed |-> TRUE]}

\* the phone of the organizer and a phone of no user
LoginPhones == {"+911", "+914"}

\* the variables the two handlers leave alone
notLogin == <<now, last, otpVars, tokenVars, bookingVars, regVars,
              invitations, tm, answer, gateVars, profVars>>

\* an index that lets every document in
UniquePhone_none(phone) == TRUE

\* create_index("phone", unique=True): insert_one raises DuplicateKeyError
\* when a document with the phone is stored
UniquePhone(phone) == ~(\E u \in users : u.phone = phone)

\* find_one({"phone": phone}): the _id of the user, 0 for None
UserIdByPhone(phone) ==
    IF \E u \in users : u.phone = phone
    THEN (CHOOSE u \in users : u.phone = phone).id
    ELSE 0

\* verify_otp_endpoint after verify_otp returned True: find_one by phone
LoginFind(p) ==
    /\ lg[p].pc = "idle"
    /\ \E phone \in LoginPhones :
          lg' = [lg EXCEPT ![p] =
                    [pc |-> IF UserIdByPhone(phone) = 0 THEN "insert"
                            ELSE "update",
                     op |-> "login", phone |-> phone,
                     user_id |-> UserIdByPhone(phone)]]
    /\ UNCHANGED <<users, managers, notLogin>>

\* insert_one(new_user): refused by the index, the request ends with 500
LoginInsert(p) ==
    /\ lg[p].pc = "insert"
    /\ lg[p].op = "login"
    /\ IF UniquePhone(lg[p].phone)
       THEN users' = users \cup
                {[id |-> Cardinality(users) + 1, phone |-> lg[p].phone,
                  role |-> "", is_verified |-> TRUE,
                  onboarding_completed |-> FALSE]}
       ELSE users' = users
    /\ lg' = [lg EXCEPT ![p] = LoginIdle]
    /\ UNCHANGED <<managers, notLogin>>

\* update_one by _id: is_verified
LoginUpdate(p) ==
    /\ lg[p].pc = "update"
    /\ users' = {IF u.id = lg[p].user_id
                 THEN [u EXCEPT !.is_verified = TRUE] ELSE u : u \in users}
    /\ lg' = [lg EXCEPT ![p] = LoginIdle]
    /\ UNCHANGED <<managers, notLogin>>

\* create_manager of org1: the find_one of an active entry with the phone
ManagerFindEntry(p) ==
    /\ lg[p].pc = "idle"
    /\ \E phone \in LoginPhones :
          IF ActiveManagerByPhone("org1", phone)
          THEN UNCHANGED lg
          ELSE lg' = [lg EXCEPT ![p] =
                         [pc |-> "find", op |-> "create_manager",
                          phone |-> phone, user_id |-> 0]]
    /\ UNCHANGED <<users, managers, notLogin>>

\* find_one({"phone": phone}): the user is linked or a new one is made
ManagerFindUser(p) ==
    /\ lg[p].pc = "find"
    /\ lg' = [lg EXCEPT ![p] =
                 [@ EXCEPT !.pc = IF UserIdByPhone(lg[p].phone) = 0
                                  THEN "insert" ELSE "entry",
                           !.user_id = UserIdByPhone(lg[p].phone)]]
    /\ UNCHANGED <<users, managers, notLogin>>

\* insert_one(new_user) in try/except: refused by the index, 500
ManagerInsertUser(p) ==
    /\ lg[p].pc = "insert"
    /\ lg[p].op = "create_manager"
    /\ IF UniquePhone(lg[p].phone)
       THEN /\ users' = users \cup
                   {[id |-> Cardinality(users) + 1, phone |-> lg[p].phone,
                     role |-> "organizer", is_verified |-> TRUE,
                     onboarding_completed |-> TRUE]}
            /\ lg' = [lg EXCEPT ![p] =
                          [@ EXCEPT !.pc = "entry",
                                    !.user_id = Cardinality(users) + 1]]
       ELSE /\ users' = users
            /\ lg' = [lg EXCEPT ![p] = LoginIdle]
    /\ UNCHANGED <<managers, notLogin>>

\* insert_one(manager_dict) with default_permissions
ManagerInsertEntry(p) ==
    /\ lg[p].pc = "entry"
    /\ managers' = managers \cup
           {ManagerEntry("org1", lg[p].user_id, lg[p].phone,
                         DefaultPermissions)}
    /\ lg' = [lg EXCEPT ![p] = LoginIdle]
    /\ UNCHANGED <<users, notLogin>>

Logins ==
    \E p \in LoginProcs : LoginFind(p) \/ LoginInsert(p) \/ LoginUpdate(p)

ManagerCreations ==
    \E p \in LoginProcs :
        \/ ManagerFindEntry(p)
        \/ ManagerFindUser(p)
        \/ ManagerInsertUser(p)
        \/ ManagerInsertEntry(p)

InitLogin ==
    /\ now = 0
    /\ users = LoginUsers
    /\ OtpStart
    /\ TokenStart
    /\ BookingStart
    /\ RegStart
    /\ TeamStart
    /\ GateStart
    /\ ProfStart
    /\ LoginStart

NextLogin == Logins \/ ManagerCreations

SpecLogin == InitLogin /\ [][NextLogin]_vars

\* u1 is added and removed as manager while tournaments are created,
\* updated and deleted
NextRevoke ==
    \/ GateAddExisting
    \/ RemoveManager
    \/ CreateTournament
    \/ UpdateTournament
    \/ DeleteTournament

SpecRevoke == InitGate /\ [][NextRevoke]_vars

\* organizers add u1 while u1 creates tournaments and asks for its
\* permissions
NextAmbig == AddExisting \/ CreateTournament \/ CheckPermission

SpecAmbig == InitGate /\ [][NextAmbig]_vars

\* update_tournament on the tournament teams register for
UpdateTeams ==
    \E c \in users : \E manager \in managers \cup {NoManager} :
    \E update_data \in TournamentUpdates :
        UpdateTournamentData(c, "T1", manager, update_data)

\* the tournament "T1" of org1, open for registration
InitCount ==
    /\ now = 0
    /\ users = GateUsers
    /\ tournaments =
          [t \in {"T1"} |-> NewTournament(
              CHOOSE u \in GateUsers : u.id = "org1", NoManager, "a")]
    /\ OtpStart
    /\ TokenStart
    /\ BookingStart
    /\ RegIdle
    /\ TeamStart
    /\ GateStart
    /\ ProfStart
    /\ LoginStart

\* an organizer adds u1 with edit_tournament
GrantEdit ==
    \E c \in {u \in users : u.role = "organizer"} :
        AddExistingReq(c, "u1", {"edit_tournament"})

\* one register_team request runs while the organizer and its manager
\* update the tournament
NextCount ==
    \/ GrantEdit
    \/ UpdateTeams
    \/ RegFindTournament(1)
    \/ RegFindTeam(1)
    \/ RegFindExisting(1)
    \/ RegCount(1)
    \/ RegInsert(1)
    \/ RegIncrement(1)
    \/ RegFetch(1)

SpecCount == InitCount /\ [][NextCount]_vars

(***************************************************************************)
(* Properties of the OTP credential store                                  *)
(***************************************************************************)
\* the code of the last send-otp is unused and its lifetime has not passed
Outstanding(p) ==
    /\ p \in DOMAIN issued
    /\ ~used[p]
    /\ now <= issuedAt[p] + OTP_EXPIRE_MINUTES

C6_Lockout ==
    \A p \in Phones :
        (Outstanding(p) /\ wrong[p] >= OTP_MAX_ATTEMPTS) =>
            /\ p \in DOMAIN otp_storage
            /\ \A c \in Codes :
                   LET r == verify_otp(p, c) IN
                   /\ StatusOf(r.ret) = "429"
                   /\ r.storage = otp_storage
                   /\ r.attempts = otp_attempts
            /\ (last.op = "verify" /\ last.phone = p /\ last.locked
                    /\ last.otp \in Codes) => last.ret = "429"

\* a locked-out phone supplied the correct code and was answered 429
C6_Witness ==
    \E p \in Phones :
        /\ Outstanding(p)
        /\ wrong[p] >= OTP_MAX_ATTEMPTS
        /\ last.op = "verify" /\ last.phone = p
        /\ last.otp = issued[p]
        /\ last.ret = "429"

\* C7: for a phone whose failed-attempt counter has reached
\* OTP_MAX_ATTEMPTS, a verify made after the expiry time of the challenge is
\* not answered 429: it purges the challenge and the counter and reports
\* false.
C7_LockoutEndsAtExpiry ==
    \A p \in Phones \cap DOMAIN otp_storage :
        (/\ p \in DOMAIN otp_attempts
         /\ otp_attempts[p].failed_attempts >= OTP_MAX_ATTEMPTS
         /\ now > otp_storage[p].expires_at) =>
            \A c \in Codes :
                LET r == verify_otp(p, c) IN
                /\ r.ret = "False"
                /\ p \notin DOMAIN r.storage
                /\ p \notin DOMAIN r.attempts

\* C8: right after a send-otp the phone has a challenge, its failed-attempt
\* counter is 0 and exactly the code just issued verifies; at all times a
\* code verifies only if it is the code of the most recent send-otp, so an
\* earlier code that differs from it does not.
C8_OneChallenge ==
    \A p \in Phones :
        /\ (last.op = "send" /\ last.ret = "200" /\ last.phone = p) =>
               /\ p \in DOMAIN otp_storage
               /\ p \in DOMAIN otp_attempts
               /\ otp_attempts[p].failed_attempts = 0
               /\ issued[p] = last.otp
               /\ \A c \in Codes :
                      verify_otp(p, c).ret = "True" <=> c = last.otp
        /\ \A c \in Codes :
               verify_otp(p, c).ret = "True" =>
                   p \in DOMAIN issued /\ c = issued[p]
        /\ \A c \in earlier[p] :
               (p \in DOMAIN issued /\ c # issued[p]) =>
                   verify_otp(p, c).ret # "True"

\* a send-otp made while the phone was locked out replaced an earlier code
C8_Witness ==
    \E p \in Phones :
        /\ last.op = "send" /\ last.ret = "200" /\ last.phone = p
        /\ last.locked
        /\ earlier[p] \ {last.otp} # {}
        /\ otp_attempts[p].failed_attempts = 0

(***************************************************************************)
(* Properties of the bearer tokens                                         *)
(***************************************************************************)
\* C9: a token minted for a subject decodes to that subject at every time
\* before mint time + ACCESS_TOKEN_EXPIRE_MINUTES (get_current_user answers
\* the user of that phone, if the record still exists); after that time
\* decode_token returns None and get_current_user answers 401.
C9_TokenLifetime ==
    /\ \A m \in minted : \A edge \in BOOLEAN :
        /\ now < m.at + ACCESS_TOKEN_EXPIRE_MINUTES =>
              /\ decode_token(m.token, edge) = [ok |-> TRUE, sub |-> m.sub]
              /\ get_current_user(m.token, edge) =
                     IF \E u \in users : u.phone = m.sub
                     THEN m.sub ELSE "401"
        /\ now > m.at + ACCESS_TOKEN_EXPIRE_MINUTES =>
              /\ decode_token(m.token, edge) = NoPayload
              /\ get_current_user(m.token, edge) = "401"
    /\ (auth.op = "get_current_user" /\ auth.ret # "401") =>
           \E m \in minted :
               /\ auth.token = m.token
               /\ auth.ret = m.sub
               /\ now <= m.at + ACCESS_TOKEN_EXPIRE_MINUTES

\* a token of a user who still exists was refused after its lifetime
C9_Witness ==
    \E m \in minted :
        /\ now > m.at + ACCESS_TOKEN_EXPIRE_MINUTES
        /\ \E u \in users : u.phone = m.sub
        /\ auth.op = "get_current_user"
        /\ auth.token = m.token
        /\ auth.ret = "401"

(***************************************************************************)
(* Properties of the venue slot guard                                      *)
(***************************************************************************)
\* the requests that asked for the slot of request p
SameSlotRequests(p) ==
    {q \in BookProcs : /\ bk[q].venue_id = bk[p].venue_id
                       /\ bk[q].booking_date = bk[p].booking_date
                       /\ bk[q].start_time = bk[p].start_time}

\* C1: no state holds two confirmed or pending bookings for the same
\* (venue, date, start_time), and when all create_booking requests for one
\* slot of an existing venue have ended, exactly one of them created a
\* booking and every other one got the slot-taken error.
C1_SingleBooking ==
    /\ \A b1 \in bookings : \A b2 \in bookings :
          (/\ b1.venue_id = b2.venue_id
           /\ b1.booking_date = b2.booking_date
           /\ b1.start_time = b2.start_time
           /\ b1.status \in ActiveStatus
           /\ b2.status \in ActiveStatus) => b1 = b2
    /\ \A p \in BookProcs :
          (/\ bk[p].venue_id \in DOMAIN VenueTable
           /\ \A q \in SameSlotRequests(p) : bk[q].pc = "done") =>
              /\ Cardinality({q \in SameSlotRequests(p) :
                                 bk[q].ret = "200"}) = 1
              /\ \A q \in SameSlotRequests(p) :
                    bk[q].ret \in {"200", "400 slot"}

(***************************************************************************)
(* Properties of tournament registration                                   *)
(***************************************************************************)
RegistrationsOf(t) == {r \in registrations : r.tournament_id = t}

Succeeded(t) == {p \in RegProcs : rg[p].tournament_id = t /\ rg[p].ret = "200"}

\* every request is made by a captain for the own team, all teams differ
DistinctCaptains ==
    /\ \A p \in RegProcs :
          /\ rg[p].team_id \in DOMAIN TeamTable
          /\ TeamTable[rg[p].team_id].captain_id = rg[p].user
    /\ \A p \in RegProcs : \A q \in RegProcs :
          rg[p].team_id = rg[q].team_id => p = q

\* C2: current_teams never exceeds max_teams, at most max_teams requests
\* succeed, and when requests of distinct captains for distinct teams have
\* all ended, min(max_teams, number of requests) succeeded, every other one
\* failed with "Tournament is full" and current_teams counts the successes.
C2_Capacity ==
    \A t \in DOMAIN tournaments :
        /\ tournaments[t].current_teams <= tournaments[t].max_teams
        /\ Cardinality(Succeeded(t)) <= tournaments[t].max_teams
        /\ (/\ DistinctCaptains
            /\ \A p \in RegProcs :
                  rg[p].pc = "done" /\ rg[p].tournament_id = t) =>
               /\ Cardinality(Succeeded(t)) =
                      IF NumRegistrants < tournaments[t].max_teams
                      THEN NumRegistrants ELSE tournaments[t].max_teams
               /\ \A p \in RegProcs : rg[p].ret \in {"200", "400 full"}
               /\ tournaments[t].current_teams = Cardinality(Succeeded(t))

\* C3: at most one registration is stored per (tournament_id, team_id), and
\* a request for a pair that is registered ends with "already registered".
C3_RegisterOnce ==
    /\ \A r1 \in registrations : \A r2 \in registrations :
          (r1.tournament_id = r2.tournament_id /\ r1.team_id = r2.team_id)
              => r1 = r2
    /\ \A p \in RegProcs : \A q \in RegProcs :
          (/\ p # q
           /\ rg[p].tournament_id = rg[q].tournament_id
           /\ rg[p].team_id = rg[q].team_id
           /\ rg[p].ret = "200") => rg[q].ret # "200"

\* C4: in every state the current_teams of a tournament equals the number
\* of registrations stored for it.
C4_CountMatchesRegistrations ==
    \A t \in DOMAIN tournaments :
        tournaments[t].current_teams = Cardinality(RegistrationsOf(t))

(***************************************************************************)
(* Properties of the invitations (SpecTeam)                                *)
(***************************************************************************)
\* the grants made from invitation i
GrantsVia(i) == {g \in managers : g.via = i.id}

\* the accept requests on invitation i that passed its tests: each of them
\* is about to insert its grant or has inserted it
AcceptsAdmitted(i) ==
    Cardinality(GrantsVia(i))
      + Cardinality({p \in TeamProcs : /\ tm[p].pc = "acc_insert"
                                       /\ tm[p].invitation_id = i.id})

ActiveGrants(organizer_id, user_id) ==
    {g \in managers : /\ g.organizer_id = organizer_id
                      /\ g.manager_user_id = user_id
                      /\ g.is_active}

\* i is the one invitation of its organizer to its target
OnlyInvitation(i) ==
    \A j \in invitations :
        (j.organizer_id = i.organizer_id /\ j.user_id = i.user_id) => j = i

\* C10: for every permission list an organizer submits, the empty one
\* included, the invitation made from it holds the submitted permissions
\* and edit_tournament; an accept that succeeds has made a grant from the
\* invitation; every grant made from an invitation is active, is of the
\* invitation's organizer and target, and has the invitation's permissions,
\* edit_tournament among them; and where one invitation of the organizer to
\* the target has been followed by one accept, the organizer and the target
\* have exactly one active grant.
C10_InviteAccept ==
    /\ \A i \in invitations : "edit_tournament" \in i.permissions
    /\ (answer.op = "invite" /\ answer.ret = "200") =>
          \E i \in invitations :
              /\ i.id = answer.created
              /\ i.organizer_id = answer.caller
              /\ i.user_id = answer.target
              /\ i.permissions = answer.permissions \cup {"edit_tournament"}
    /\ (answer.op = "accept" /\ answer.ret = "200") =>
          \E g \in managers :
              /\ g.id = answer.created
              /\ g.via = answer.invitation_id
              /\ g.manager_user_id = answer.caller
    /\ \A g \in managers :
          \E i \in invitations :
              /\ i.id = g.via
              /\ g.is_active
              /\ g.organizer_id = i.organizer_id
              /\ g.manager_user_id = i.user_id
              /\ g.permissions = i.permissions
              /\ "edit_tournament" \in g.permissions
    /\ \A i \in invitations :
          (OnlyInvitation(i) /\ AcceptsAdmitted(i) = 1 /\ GrantsVia(i) # {})
              => Cardinality(ActiveGrants(i.organizer_id, i.user_id)) = 1

\* an invitation made from the empty permission list (the answer to the
\* invite is the last one given) has been accepted by its target: the grant
\* is in organizer_managers, the one grant of the pair
C10_Witness ==
    /\ answer.op = "invite"
    /\ answer.ret = "200"
    /\ answer.permissions = {}
    /\ \E i \in invitations :
          /\ i.id = answer.created
          /\ i.permissions = {"edit_tournament"}
          /\ AcceptsAdmitted(i) = 1
          /\ \E g \in managers :
                /\ g.via = i.id
                /\ g.permissions = {"edit_tournament"}
                /\ ActiveGrants(i.organizer_id, i.user_id) = {g}

\* the status invitation i has after the step
StatusAfter(i) ==
    (CHOOSE j \in invitations' : j.id = i.id).status

\* C11: an invitation leaves status pending once: the status of an
\* invitation that is accepted or rejected does not change again, and under
\* every interleaving of accept requests at most one grant is made from an
\* invitation.
C11_DecidedOnce ==
    [][/\ \A i \in invitations :
             i.status # "pending" => StatusAfter(i) = i.status
       /\ \A i \in invitations' :
             Cardinality({g \in managers' : g.via = i.id}) <= 1]_vars

\* C12: no grant has been made from an invitation whose status is rejected,
\* also when an accept and a reject of the target interleave.
C12_RejectedNoGrant ==
    \A i \in invitations : i.status = "rejected" => GrantsVia(i) = {}

\* the pending invitations of organizer_id to user_id
PendingFor(organizer_id, user_id) ==
    {i \in invitations : /\ i.organizer_id = organizer_id
                         /\ i.user_id = user_id
                         /\ i.status = "pending"}

\* C13: in every reachable state at most one invitation of an organizer to
\* a user is pending, also when two send requests for the pair run side by
\* side.
C13_OnePending ==
    \A i \in invitations :
        Cardinality(PendingFor(i.organizer_id, i.user_id)) <= 1

(***************************************************************************)
(* Properties of the managers an organizer adds directly (SpecDirect,      *)
(* SpecCreate)                                                             *)
(***************************************************************************)
\* C14: in every state reached by a sequence of add-existing,
\* create-manager, update-manager and remove-manager requests an organizer
\* and a user have at most one active manager entry.
C14_OneActiveGrant ==
    \A m \in managers :
        Cardinality(ActiveGrants(m.organizer_id, m.manager_user_id)) <= 1

\* the phone belongs to a registered user
Registered(phone) == \E u \in users : u.phone = phone

\* the email belongs to an existing account
EmailTaken(email) == email # "" /\ (\E u \in users : u.email = email)

\* C15 as stated: create-manager fails whenever the phone belongs to a
\* registered user, and whenever the email belongs to an existing account;
\* it then creates no manager entry and no user and changes no user.
C15_CreateFailsOnKnownPhone ==
    [][\A c \in users : \A phone \in CreatePhones :
       \A email \in CreateEmails : \A permissions \in CreatePermissionLists :
          (/\ CreateManagerReq(c, phone, email, permissions)
           /\ Registered(phone) \/ EmailTaken(email))
             => /\ reply'.ret # "200"
                /\ managers' = managers
                /\ users' = users]_vars

\* C15, amended: create-manager never changes or creates a user when the
\* phone belongs to a registered user; called by an organizer who has no
\* active entry with that phone, it then succeeds and adds one active
\* entry of the organizer for that user. When the phone belongs to no user
\* and the email belongs to an existing account it fails and creates
\* neither a user nor an entry.
C15_CreateLinksKnownPhone ==
    [][\A c \in users : \A phone \in CreatePhones :
       \A email \in CreateEmails : \A permissions \in CreatePermissionLists :
          CreateManagerReq(c, phone, email, permissions)
             => /\ Registered(phone) => users' = users
                /\ (/\ Registered(phone)
                    /\ c.role = "organizer"
                    /\ ~ActiveManagerByPhone(c.id, phone))
                      => /\ reply'.ret = "200"
                         /\ \E m \in managers' :
                               /\ managers' = managers \cup {m}
                               /\ m \notin managers
                               /\ m.organizer_id = c.id
                               /\ \E u \in users : /\ u.phone = phone
                                                   /\ m.manager_user_id = u.id
                               /\ m.is_active
                /\ (~Registered(phone) /\ EmailTaken(email))
                      => /\ reply'.ret # "200"
                         /\ managers' = managers
                         /\ users' = users]_vars

\* create-manager with the phone of the registered user u1 has succeeded:
\* the entry it made is for u1 and no user was added
C15_Witness ==
    /\ reply.op = "create_manager"
    /\ reply.ret = "200"
    /\ users = GateUsers
    /\ \E m \in managers : /\ m.id = reply.id
                           /\ m.phone = "+913"
                           /\ m.manager_user_id = "u1"
                           /\ m.is_active

\* C16: an accept request goes past its tests only when the invitation it
\* reads exists, targets the caller, has status pending and an expires_at
\* that has not passed; a request that fails changes no invitation and
\* creates no manager entry; an entry is created, and the request succeeds,
\* only for a request that went past the tests
C16_AcceptOnlyAdmitted ==
    [][\A p \in TeamProcs :
          /\ (tm[p].pc = "idle" /\ tm'[p].pc = "acc_insert")
                => LET invitation == InvitationById(tm'[p].invitation_id) IN
                   /\ invitation # NoInvitation
                   /\ tm'[p].inv = invitation
                   /\ invitation.user_id = tm'[p].caller
                   /\ invitation.status = "pending"
                   /\ invitation.expires_at >= now
          /\ (answer' # answer /\ answer'.op = "accept"
                  /\ answer'.ret # "200")
                => invitations' = invitations /\ managers' = managers
          /\ (tm[p].op = "accept" /\ tm'[p] # tm[p]
                  /\ tm[p].pc # "acc_insert")
                => managers' = managers
          /\ (tm[p].op = "accept" /\ tm'[p] = TeamIdle /\ tm[p] # TeamIdle)
                => tm[p].pc = "acc_fetch" /\ answer'.ret = "200"
      ]_vars

C16_Witness ==
    /\ answer.op = "accept"
    /\ answer.ret = "400 expired"
    /\ managers = {}
    /\ \E i \in invitations : i.status = "pending" /\ i.expires_at < now

\* C17 as stated: a reject request does not go past its tests when the
\* expires_at of the invitation it reads has passed, and an invitation
\* whose expires_at has passed does not become rejected
C17_RejectFailsOnExpired ==
    [][/\ \A p \in TeamProcs :
             (tm[p].pc = "idle" /\ tm'[p].pc = "rej_update")
                => InvitationById(tm'[p].invitation_id).expires_at >= now
       /\ \A i \in invitations :
             (i.status = "pending" /\ i.expires_at < now)
                => StatusAfter(i) # "rejected"
      ]_vars

\* the caller is the recorded organizer of the tournament or holds an
\* active entry of that organizer with edit_tournament
MayEdit(c, tournament_id) ==
    \/ tournaments[tournament_id].organizer_id = c.id
    \/ \E m \in managers :
          /\ m.manager_user_id = c.id
          /\ m.organizer_id = tournaments[tournament_id].organizer_id
          /\ m.is_active
          /\ "edit_tournament" \in m.permissions

\* C18 as stated: update_tournament and delete_tournament of a stored
\* tournament answer 200 and change it if the caller is its organizer_id
\* or holds an active entry of that organizer with edit_tournament, and
\* answer 403 and leave it as it is for every other caller
C18_EditIffAuthorized ==
    [][\A c \in users : \A tournament_id \in DOMAIN tournaments :
       \A manager \in managers \cup {NoManager} :
          /\ \A name \in TournamentNames :
                UpdateTournamentReq(c, tournament_id, manager, name)
                   => IF MayEdit(c, tournament_id)
                      THEN /\ reply'.ret = "200"
                           /\ tournaments'[tournament_id].name = name
                      ELSE /\ reply'.ret \in {"403", "403 permission"}
                           /\ tournaments' = tournaments
          /\ DeleteTournamentReq(c, tournament_id, manager)
                   => IF MayEdit(c, tournament_id)
                      THEN /\ reply'.ret = "200"
                           /\ ~tournaments'[tournament_id].is_active
                      ELSE /\ reply'.ret \in {"403", "403 permission"}
                           /\ tournaments' = tournaments
      ]_vars

\* C19 as stated: when create_tournament succeeds for a caller whom
\* check_my_permissions reports as a manager, the new tournament has the
\* organizer_id check_my_permissions reports, which is not the caller,
\* created_by is the caller and created_by_manager is true
C19_DelegateStampsPrincipal ==
    [][\A c \in users : \A manager \in managers \cup {NoManager} :
       \A name \in TournamentNames :
          (/\ CreateTournamentReq(c, manager, name)
           /\ reply'.ret = "200"
           /\ \A found \in FindOne(ActiveEntriesOf(c.id)) :
                 CheckMyPermissions(c, found).is_manager)
             => LET created == tournaments'[reply'.id] IN
                /\ \E found \in FindOne(ActiveEntriesOf(c.id)) :
                      created.organizer_id
                          = CheckMyPermissions(c, found).organizer_id
                /\ created.organizer_id # c.id
                /\ created.created_by = c.id
                /\ created.created_by_manager
      ]_vars

\* C20 as stated: create_tournament answers 200 only to a caller for whom
\* the permissions check_my_permissions returns contain create_tournament;
\* every other caller is answered 403 and no tournament is created
C20_CreateOnlyWithPermission ==
    [][\A c \in users : \A manager \in managers \cup {NoManager} :
       \A name \in TournamentNames :
          CreateTournamentReq(c, manager, name)
             => \/ \E found \in FindOne(ActiveEntriesOf(c.id)) :
                      "create_tournament"
                          \in CheckMyPermissions(c, found).permissions
                \/ /\ reply'.ret \in {"403", "403 permission"}
                   /\ tournaments' = tournaments
      ]_vars

\* C21: check-permission answers a user who has an active manager entry
\* with is_manager, the organizer_id and the permissions of one such entry;
\* a user without one whose role is organizer with is_organizer, its own
\* id and the four fixed permissions; every other user with no
\* organizer_id and no permission
C21_CheckPermission ==
    [][\A c \in users : \A manager \in managers \cup {NoManager} :
          CheckPermissionReq(c, manager)
             => IF ActiveEntriesOf(c.id) # {}
                THEN /\ permission'.is_manager
                     /\ ~permission'.is_organizer
                     /\ \E g \in ActiveEntriesOf(c.id) :
                           /\ permission'.organizer_id = g.organizer_id
                           /\ permission'.permissions = g.permissions
                ELSE IF c.role = "organizer"
                THEN /\ permission'.is_organizer
                     /\ ~permission'.is_manager
                     /\ permission'.organizer_id = c.id
                     /\ permission'.permissions =
                           {"create_tournament", "edit_tournament",
                            "view_registrations", "manage_team"}
                ELSE /\ ~permission'.is_organizer
                     /\ ~permission'.is_manager
                     /\ permission'.organizer_id = ""
                     /\ permission'.permissions = {}
      ]_vars

\* check-permission has answered a user of role organizer who holds an
\* active entry of another organizer
C21_Witness ==
    /\ reply.op = "check_permission"
    /\ permission.is_manager
    /\ permission.permissions = {"edit_tournament"}
    /\ \E u \in users :
          /\ u.role = "organizer"
          /\ \E g \in ActiveEntriesOf(u.id) :
                permission.organizer_id = g.organizer_id

\* C22 as stated: the total_amount of every stored booking of one hour is
\* the price get_venue_slots reports for the slot of its venue, date and
\* start time
C22_BookingPriceIsSlotPrice ==
    \A b \in bookings :
        b.duration_hours = 1
           => b.total_amount = SlotPrice(VenueTable[b.venue_id],
                                         b.booking_date, b.start_time)

\* C23 as stated: for each tournament and professional at most one booking
\* with role Umpire has status confirmed or accepted
C23_OneUmpireBooking ==
    \A a, b \in prof_bookings :
        (/\ a.role = "Umpire" /\ b.role = "Umpire"
         /\ a.tournament_id = b.tournament_id
         /\ a.professional_id = b.professional_id
         /\ a.status \in {"confirmed", "accepted"}
         /\ b.status \in {"confirmed", "accepted"})
           => a.id = b.id

\* C24: a verify that reaches the expiry test with an expired challenge
\* answers 400, removes the challenge and the failed-attempt counter of
\* the phone and creates no user; a phone becomes rate limited only by a
\* verify on a challenge that has not expired
C24_ExpiredVerifyPurges ==
    [][\A p \in Phones :
          /\ (/\ last'.op = "verify" /\ last'.phone = p
               /\ last'.ret # "400 format"
               /\ p \in DOMAIN otp_storage
               /\ ~RateLimited(p)
               /\ now > otp_storage[p].expires_at)
                => /\ last'.ret = "400"
                   /\ p \notin DOMAIN otp_storage'
                   /\ p \notin DOMAIN otp_attempts'
                   /\ users' = users
          /\ (~RateLimited(p) /\ RateLimited(p)')
                => /\ last'.op = "verify" /\ last'.phone = p
                   /\ p \in DOMAIN otp_storage
                   /\ now <= otp_storage[p].expires_at
      ]_vars

\* a verify with the issued code, the phone not rate limited and the code
\* never verified, has been answered 400 after the lifetime of the code:
\* the challenge was found expired, and no counter is left
C24_Witness ==
    /\ last.op = "verify"
    /\ last.ret = "400"
    /\ last.phone \in DOMAIN issued
    /\ last.otp = issued[last.phone]
    /\ ~used[last.phone]
    /\ ~last.locked
    /\ now > issuedAt[last.phone] + OTP_EXPIRE_MINUTES
    /\ last.phone \notin DOMAIN otp_storage
    /\ last.phone \notin DOMAIN otp_attempts

\* C25: no two user records have the same phone; a login that finds no
\* user of its phone inserts at most one user, with onboarding_completed
\* false, and a login that finds a user inserts none
C25_OneUserPerPhone ==
    [][/\ \A u, v \in users' : u.phone = v.phone => u.id = v.id
       /\ \A p \in LoginProcs :
            (lg[p].op = "login" /\ lg'[p] = LoginIdle /\ lg[p] # LoginIdle)
               => IF lg[p].pc = "insert"
                  THEN \/ users' = users
                       \/ \E u \in users' :
                             /\ u \notin users
                             /\ users' = users \cup {u}
                             /\ u.phone = lg[p].phone
                             /\ ~u.onboarding_completed
                  ELSE {u.id : u \in users'} = {u.id : u \in users}
      ]_vars

\* a login and a create_manager both found no user of the phone; the
\* create_manager has inserted its user and the login is about to insert
C25_Witness ==
    /\ \E u \in users : u.phone = "+914" /\ u.onboarding_completed
    /\ \E p \in LoginProcs :
          /\ lg[p].op = "login"
          /\ lg[p].pc = "insert"
          /\ lg[p].phone = "+914"

\* the active bookings of the slot: same venue, date and start time
SameStart(r) ==
    {b \in bookings : /\ b.venue_id = r.venue_id
                      /\ b.booking_date = r.booking_date
                      /\ b.start_time = r.start_time
                      /\ b.status \in {"confirmed", "pending"}}

\* C26: the availability select of create_booking lets a request pass if
\* and only if no confirmed or pending booking of the same venue and date
\* has the same start_time, whatever the intervals of the stored bookings;
\* a booking once stored stays as it is
C26_GuardComparesStartOnly ==
    [][/\ \A p \in BookProcs :
            (bk[p].pc = "check" /\ bk'[p] # bk[p])
               => /\ bk'[p].pc = "flush" <=> SameStart(bk[p]) = {}
                  /\ bk'[p].ret = "400 slot"
                        <=> Cardinality(SameStart(bk[p])) = 1
       /\ bookings \subseteq bookings'
      ]_vars

\* two confirmed bookings of one venue and date whose intervals overlap
C26_Witness ==
    \E a, b \in bookings :
        /\ a.venue_id = b.venue_id
        /\ a.booking_date = b.booking_date
        /\ a.start_time < b.start_time
        /\ b.start_time < a.end_time
        /\ a.id < b.id
        /\ a.status = "confirmed" /\ b.status = "confirmed"

\* C27: the status of an invitation changes only at the update of an
\* accept or a reject request for it, never with the clock; a send request
\* whose find_one meets a pending invitation of the pair, expired or not,
\* ends with 400 and stores nothing; an invitation is stored only while
\* the pair has no pending invitation
C27_ExpiredPendingBlocksInvite ==
    [][/\ \A i \in invitations :
            StatusAfter(i) # i.status
               => \E p \in TeamProcs :
                     /\ tm[p].pc \in {"acc_update", "rej_update"}
                     /\ tm[p].invitation_id = i.id
                     /\ now' = now
       /\ \A p \in TeamProcs :
            (/\ tm[p].pc = "inv_pending" /\ tm'[p] # tm[p]
             /\ PendingFor(tm[p].caller, tm[p].target) # {})
               => /\ tm'[p] = TeamIdle
                  /\ answer'.ret = "400 pending"
                  /\ invitations' = invitations
       /\ \A i \in invitations' :
            i.id \notin {j.id : j \in invitations}
               => PendingFor(i.organizer_id, i.user_id) = {}
      ]_vars

\* a send request has been refused because of a pending invitation that
\* had expired
C27_Witness ==
    /\ answer.op = "invite"
    /\ answer.ret = "400 pending"
    /\ \E i \in invitations : i.status = "pending" /\ i.expires_at < now

\* the caller holds no active entry of the organizer of the tournament
\* and is not that organizer
Revoked(c, tournament_id) ==
    /\ tournaments[tournament_id].organizer_id # c.id
    /\ ~\E m \in managers :
          /\ m.manager_user_id = c.id
          /\ m.organizer_id = tournaments[tournament_id].organizer_id
          /\ m.is_active

\* C28: remove_manager keeps the entry and sets is_active to false; from
\* then on update_tournament and delete_tournament answer 403 to the user
\* and leave the tournament as it is, as long as the user holds no active
\* entry of the organizer of the tournament
C28_RevokedIsDenied ==
    [][/\ \A c \in users : \A manager_id \in ManagerIds :
            (RemoveManagerReq(c, manager_id) /\ reply'.ret = "200")
               => /\ {m.id : m \in managers'} = ManagerIds
                  /\ \E m \in managers' : m.id = manager_id /\ ~m.is_active
       /\ \A c \in users : \A tournament_id \in DOMAIN tournaments :
          \A manager \in managers \cup {NoManager} :
            Revoked(c, tournament_id)
               => /\ \A name \in TournamentNames :
                        UpdateTournamentReq(c, tournament_id, manager, name)
                           => /\ reply'.ret = "403"
                              /\ tournaments' = tournaments
                  /\ DeleteTournamentReq(c, tournament_id, manager)
                        => /\ reply'.ret = "403"
                           /\ tournaments' = tournaments
      ]_vars

\* u1, whose entry with edit_tournament was removed, has been refused on
\* the tournament of the organizer, which u1 had updated before
C28_Witness ==
    /\ reply.op = "update_tournament"
    /\ reply.ret = "403"
    /\ Len(tournaments) = 1
    /\ tournaments[1].organizer_id = "org1"
    /\ tournaments[1].name = "open"
    /\ managers # {}
    /\ \A m \in managers :
          /\ m.organizer_id = "org1"
          /\ m.manager_user_id = "u1"
          /\ ~m.is_active
          /\ "edit_tournament" \in m.permissions

\* the active entries of the user, of whatever organizer
GrantsOf(user_id) ==
    {m \in managers : m.manager_user_id = user_id /\ m.is_active}

\* C29: add-existing by an organizer succeeds for a user who holds active
\* entries of other organizers only; for a user with active entries,
\* check-permission may answer with the organizer_id and permissions of
\* each of them, and create_tournament of a user who is not an organizer
\* stamps the organizer_id of the entry its find_one returned, which may
\* be each of those with create_tournament
C29_GrantOfAnyOrganizer ==
    [][\A c \in users :
          /\ \A permissions \in PermissionLists :
                (/\ AddExistingReq(c, "u1", permissions)
                 /\ c.role = "organizer"
                 /\ \A m \in GrantsOf("u1") : m.organizer_id # c.id)
                   => /\ reply'.ret = "200"
                      /\ \E m \in managers' :
                            /\ m.id = reply'.id
                            /\ m.organizer_id = c.id
                            /\ m.is_active
                      /\ GrantsOf("u1") \subseteq managers'
          /\ \A g \in GrantsOf(c.id) :
                /\ ENABLED CheckPermissionReq(c, g)
                /\ CheckPermissionReq(c, g)
                      => /\ permission'.organizer_id = g.organizer_id
                         /\ permission'.permissions = g.permissions
                /\ (/\ c.role # "organizer"
                     /\ "create_tournament" \in g.permissions
                     /\ Len(tournaments) < MaxTournaments)
                      => \A name \in TournamentNames :
                            ENABLED CreateTournamentReq(c, g, name)
                /\ \A name \in TournamentNames :
                      (/\ CreateTournamentReq(c, g, name)
                       /\ c.role # "organizer"
                       /\ reply'.ret = "200")
                         => tournaments'[reply'.id].organizer_id
                               = g.organizer_id
      ]_vars

\* u1 holds active entries of two organizers; its tournament was stamped
\* with one of them and check-permission has now answered with the other
C29_Witness ==
    /\ reply.op = "check_permission"
    /\ Len(tournaments) = 1
    /\ tournaments[1].created_by = "u1"
    /\ tournaments[1].created_by_manager
    /\ permission.is_manager
    /\ permission.organizer_id # tournaments[1].organizer_id
    /\ \E g, h \in GrantsOf("u1") :
          /\ g.organizer_id = tournaments[1].organizer_id
          /\ h.organizer_id = permission.organizer_id

\* C30: an update_tournament that sets current_teams, made by the owner or
\* by a user with an active entry of the owner holding edit_tournament,
\* stores the value sent, whatever max_teams and the stored registrations
\* are, and changes neither of them
C30_UpdateWritesCurrentTeams ==
    [][\A c \in users : \A manager \in managers \cup {NoManager} :
       \A update_data \in TournamentUpdates :
          (/\ UpdateTournamentData(c, "T1", manager, update_data)
           /\ "current_teams" \in DOMAIN update_data
           /\ \/ tournaments["T1"].organizer_id = c.id
              \/ \E m \in managers :
                    /\ m.manager_user_id = c.id
                    /\ m.organizer_id = tournaments["T1"].organizer_id
                    /\ m.is_active
                    /\ "edit_tournament" \in m.permissions
                    /\ manager = m)
             => /\ reply'.ret = "200"
                /\ tournaments'["T1"].current_teams
                      = update_data["current_teams"]
                /\ tournaments'["T1"].max_teams
                      = tournaments["T1"].max_teams
                /\ registrations' = registrations
      ]_vars

\* after a team has registered, an update has set current_teams above
\* max_teams and away from the number of registrations
C30_Witness ==
    /\ reply = Reply("update_tournament", "200", "T1")
    /\ Cardinality(registrations) = 1
    /\ \E p \in RegProcs : rg[p].pc = "done" /\ rg[p].ret = "200"
    /\ tournaments["T1"].current_teams > tournaments["T1"].max_teams
    /\ tournaments["T1"].current_teams # Cardinality(registrations)

====
